---- MODULE Spec2Model ----
(***************************************************************************)
(* GitGroove generative-music engine: the transport (useSequencer), the    *)
(* harmony engine (HarmonyManager) and the orchestrator's audio side       *)
(* (initAudioContext, playPattern, the voice manager, stopPlayback).       *)
(*                                                                         *)
(* Time is in milliseconds for the transport (performance.now() and the    *)
(* requestAnimationFrame timestamps) and in half seconds for the audio     *)
(* clock (Tone.now()).  progress is kept as the numerator of a fraction    *)
(* over ProgressDen, so that elapsed / msPerBar is exact:                  *)
(*   elapsed / ((60 / bpm) * 1000) = (elapsed * bpm) / 60000.              *)
(***************************************************************************)
EXTENDS Integers, Sequences, FiniteSets, TLC

(* ------------------------------ bounds -------------------------------- *)

\* Number of frame periods of clock the transport is explored for.
MaxFrames == 3
\* Number of frame periods explored for the loop-wraparound scenario.
MaxWrapFrames == 15
\* Largest loop length (bars) tried.
MaxBars == 2
\* Largest number of animation-frame requests outstanding at once.
MaxRequests == 3

\* One frame period of the explored clock grid, and the frame gaps tried.
FramePeriod == 150
FrameGaps == {FramePeriod, 2 * FramePeriod}
\* Frames of the run with late frames, and the gaps tried there: one frame
\* period, and a gap longer than two bars at the fastest tempo.
MaxLateFrames == 8
LateGaps == {FramePeriod, 4 * FramePeriod}
\* Frames of the page's run, and the values tried for handleBPMChange
\* (below, inside and above the range of setBPM).
MaxPageFrames == 3
PageBpmInputs == {10, 120, 1000}
\* performance.now() when the page's first handler runs.
TimeOrigin == 10 * FramePeriod
\* Arguments tried for setStartPosition.
StartPositions == {0, 1}
\* Days of a week element inspected by handleDayPatterns, the levels their
\* class names carry, and the frames of the day-pattern run.
MaxDays == 2
DayLevels == {0, 2, 3}
DayFramePeriod == 250
MaxDayFrames == 4
\* Calls of generatePattern followed, and the arguments tried for it.
MaxGenCalls == 3
GenTypes == {"bass", "chords", "arpeggio"}
GenLevels == 0..5
GenNotes == {<<>>, <<"C3", "E3">>, <<"C4", "E4", "G4", "C5">>}
\* Arguments tried for setBPM (below, inside and above the legal range).
BpmInputs == {10, 1000}

(* ------------------------- transport constants ------------------------ *)

MinBpm == 30
MaxBpm == 300
InitialBpm == 90
\* progress = ProgressNum / ProgressDen; 0.999 = ProgressCap / ProgressDen
ProgressDen == 60000
ProgressCap == 59940

Min(a, b) == IF a < b THEN a ELSE b
Max(a, b) == IF a > b THEN a ELSE b

VARIABLES
    \* useSequencer (transport) state
    isPlaying, currentBar, startPosition, bpm, progress, isLooping,
    lastTimestamp,      \* 0 models the falsy values (undefined, 0)
    bars,               \* the bars ref passed to useSequencer
    \* the browser: clock and animation-frame requests
    now,                \* performance.now() = timestamp of the current frame
    due,                \* requests registered before the current frame
    queued,             \* requests registered at the current timestamp
    animationFrame,     \* where the request named by the handle is
    \* observation of the notifications and of the history
    emitted,            \* notifications raised by the last tick, in order,
                        \* then "throw" if a handler threw; <<>> after any
                        \* other operation
    loopCompletes,      \* onLoopComplete notifications since the last play()
    advances,           \* bar advances since the last play()
    playedAt,           \* performance.now() at the last play()
    lastFrameAt,        \* timestamp of the last tick
    prevFrameAt,        \* timestamp of the tick before the last tick
    \* HarmonyManager state
    currentKey, currentScale, currentProgression, rootHistory,
    \* useOrchestrator, usePatternHandler and useVoiceManager state
    isAudioContextInitialized,
    orchIsPlaying,      \* the orchestrator's isPlaying ref
    animationFrameId,   \* TRUE when it holds a request id, FALSE when null
    animateQueue,       \* pending animation-frame requests for animate, in
                        \* order; TRUE marks the one animationFrameId names
    lastBeat,           \* closure variable of updateProgressionChord
    activeSynths,       \* [bass, pad, lead] flags
    voiceStatus,        \* [active, pending, lastCleanup]
    toneNow,            \* Tone.now(), in ticks of 1 / TicksPerSecond s
    calls,              \* the async calls in progress, one per caller
    sounding,           \* per synth instance: has notes triggered and not
                        \* released
    startSequences,     \* times the start sequence has been executed
    grants,             \* voice allocations granted by the last
                        \* executePattern: [before, notes]
    \* useSynthState and the orchestrator's synths and effects
    synthParams,        \* synthState.synthParams: voice -> name -> value
    liveParams,         \* parameters of the orchestrator's synths and
                        \* effects: voice -> parameter path -> value
    paramUpdates,       \* updateSynthParam calls made
    \* a call of getChordNotes and getExtendedHarmony on a HarmonyManager
    \* one pause and resume of the transport, as the page sees it
    phase,              \* "idle", "playing", "paused" or "resumed"
    retained,           \* currentBar and progress at pause(), and its time
    resumedAt,          \* performance.now() at resume()
    barPlayed,          \* ms of playing time spent in the current bar
    reported,           \* the arguments of the last onTick notification
    ticksSinceResume,   \* ticks run since resume(), counted up to 2
    advancedSinceResume,\* a bar advance has happened since resume()
    \* the sequencer that plays the day patterns (composables/useSequencer)
    dayPlaying,         \* isPlaying
    dayBar,             \* currentBar
    dayProgress,        \* progress, over ProgressDen
    dayLast,            \* lastTimestamp; 0 models the falsy values
    isTriggered,
    dayNow,             \* performance.now() = timestamp of the frame
    dayFrame,           \* where the animation-frame request is
    dayTicks,           \* ticks run so far
    timers,             \* pending setTimeout callbacks, in creation order
    dayLog,             \* updateHarmony and playPattern calls, in order
    \* calls of PatternGenerator.generatePattern
    genCalls,           \* calls made so far
    genFirst,           \* arguments and result of the first call
    genLast,            \* arguments and result of the last call
    \* the tempo held outside the transport
    currentBPM,         \* the orchestrator's currentBPM ref
    harmonyBpm,         \* _bpm of the orchestrator's HarmonyManager
    probe               \* once called: [key, scale, symbol, level] given,
                        \* [chord, baseChord, harmony] returned

\* The set of the elements of a sequence
Range(f) == {f[i] : i \in DOMAIN f}

seqVars == <<isPlaying, currentBar, startPosition, bpm, progress, isLooping,
             lastTimestamp, bars>>
frameVars == <<now, due, queued, animationFrame>>
runVars == <<loopCompletes, advances, playedAt, lastFrameAt, prevFrameAt>>
transportVars == <<seqVars, frameVars, emitted, runVars>>

harmonyVars == <<currentKey, currentScale, currentProgression, rootHistory>>

audioVars == <<isAudioContextInitialized, orchIsPlaying, animationFrameId,
               animateQueue, lastBeat, activeSynths, voiceStatus, toneNow,
               calls, sounding,
               startSequences, grants>>

synthVars == <<synthParams, liveParams, paramUpdates>>

probeVars == <<probe>>

pauseVars == <<phase, retained, resumedAt, barPlayed, reported,
               ticksSinceResume, advancedSinceResume>>

dayVars == <<dayPlaying, dayBar, dayProgress, dayLast, isTriggered, dayNow,
             dayFrame, dayTicks, timers, dayLog>>

genVars == <<genCalls, genFirst, genLast>>

bpmVars == <<currentBPM, harmonyBpm>>

vars == <<transportVars, harmonyVars, audioVars, synthVars, probeVars,
          pauseVars, dayVars, genVars, bpmVars>>

(* ===================== transport: useSequencer ======================== *)

\* The sequencer's refs and its lastTimestamp, as one value.
SeqState ==
    [isPlaying |-> isPlaying, currentBar |-> currentBar,
     startPosition |-> startPosition, bpm |-> bpm, progress |-> progress,
     isLooping |-> isLooping, lastTimestamp |-> lastTimestamp, bars |-> bars,
     emitted |-> <<>>, threw |-> FALSE]

\* elapsed >= msPerBar, with msPerBar = (60 / bpm) * 1000
BarElapsed(elapsed, b) == elapsed * b >= ProgressDen

\* Faulty variant of the progress: no cap at 0.999.
ProgressOfUncapped(elapsed, b) == elapsed * b

\* Math.min(elapsed / msPerBar, 0.999), over ProgressDen
ProgressOf(elapsed, b) == Min(elapsed * b, ProgressCap)

\* Faulty variant of progress * msPerBar: the progress made is dropped.
ProgressMsNone(p, b) == 0

\* progress * msPerBar, in whole milliseconds
ProgressMs(p, b) == p \div b

\* Faulty variant of updateBarPosition: the loop wraps one bar late.
UpdateBarPositionLate(s, timestamp, fault) ==
    LET nextBar == s.currentBar + 1 IN
    IF nextBar > s.startPosition + s.bars
    THEN [s EXCEPT !.isLooping = TRUE, !.currentBar = s.startPosition,
                   !.progress = 0, !.lastTimestamp = timestamp,
                   !.emitted = Append(@, "onLoopComplete"),
                   !.threw = (fault = "onLoopComplete")]
    ELSE [s EXCEPT !.isLooping = FALSE, !.currentBar = nextBar,
                   !.lastTimestamp = timestamp, !.progress = 0]

\* Faulty variant of updateBarPosition: the end of the loop is not tested.
UpdateBarPositionNoWrap(s, timestamp, fault) ==
    [s EXCEPT !.isLooping = FALSE, !.currentBar = s.currentBar + 1,
              !.lastTimestamp = timestamp, !.progress = 0]

\* Faulty variant of updateBarPosition: the clock anchor moves on by one bar
\* duration, so the overshoot is kept.
UpdateBarPositionKeepOvershoot(s, timestamp, fault) ==
    LET nextBar == s.currentBar + 1
        anchor == s.lastTimestamp + (ProgressDen \div s.bpm)
    IN  IF nextBar > s.startPosition + s.bars - 1
        THEN [s EXCEPT !.isLooping = TRUE, !.currentBar = s.startPosition,
                       !.progress = 0, !.lastTimestamp = anchor,
                       !.emitted = Append(@, "onLoopComplete"),
                       !.threw = (fault = "onLoopComplete")]
        ELSE [s EXCEPT !.isLooping = FALSE, !.currentBar = nextBar,
                       !.lastTimestamp = anchor, !.progress = 0]

\* updateBarPosition: the wrapping branch calls events.onLoopComplete, which
\* throws when fault names it.
UpdateBarPosition(s, timestamp, fault) ==
    LET nextBar == s.currentBar + 1 IN
    IF nextBar > s.startPosition + s.bars - 1
    THEN [s EXCEPT !.isLooping = TRUE, !.currentBar = s.startPosition,
                   !.progress = 0, !.lastTimestamp = timestamp,
                   !.emitted = Append(@, "onLoopComplete"),
                   !.threw = (fault = "onLoopComplete")]
    ELSE [s EXCEPT !.isLooping = FALSE, !.currentBar = nextBar,
                   !.lastTimestamp = timestamp, !.progress = 0]

\* Faulty variant of the try block: onBarChange is raised only when the
\* advance did not wrap.
TickTryQuietWrap(s0, timestamp, fault) ==
    LET elapsed == timestamp - s0.lastTimestamp
        s1 == [s0 EXCEPT !.progress = ProgressOf(elapsed, s0.bpm),
                         !.emitted = <<"onTick">>,
                         !.threw = (fault = "onTick")]
        s2 == IF s1.threw \/ ~BarElapsed(elapsed, s0.bpm) THEN s1
              ELSE UpdateBarPosition(s1, timestamp, fault)
    IN  IF s2.threw \/ ~BarElapsed(elapsed, s0.bpm) \/ s2.isLooping THEN s2
        ELSE [s2 EXCEPT !.emitted = Append(@, "onBarChange"),
                        !.threw = (fault = "onBarChange")]

\* The try block of tick up to the rescheduling: progress, onTick, and on a
\* full bar updateBarPosition and onBarChange.  A handler named by fault
\* throws, which skips the rest of the block.
TickTry(s0, timestamp, fault) ==
    LET elapsed == timestamp - s0.lastTimestamp
        s1 == [s0 EXCEPT !.progress = ProgressOf(elapsed, s0.bpm),
                         !.emitted = <<"onTick">>,
                         !.threw = (fault = "onTick")]
        s2 == IF s1.threw \/ ~BarElapsed(elapsed, s0.bpm) THEN s1
              ELSE UpdateBarPosition(s1, timestamp, fault)
    IN  IF s2.threw \/ ~BarElapsed(elapsed, s0.bpm) THEN s2
        ELSE [s2 EXCEPT !.emitted = Append(@, "onBarChange"),
                        !.threw = (fault = "onBarChange")]

\* pause(): isPlaying = false (cancelAnimationFrame is in CancelFrame)
PauseState(s) == [s EXCEPT !.isPlaying = FALSE]

\* stop(): pause(), progress = 0, currentBar = startPosition, isLooping = false
StopState(s) ==
    [PauseState(s) EXCEPT !.progress = 0, !.currentBar = s.startPosition,
                          !.isLooping = FALSE]

\* Assigns the sequencer's refs and lastTimestamp from a value.
SetSeq(s) ==
    /\ isPlaying' = s.isPlaying
    /\ currentBar' = s.currentBar
    /\ startPosition' = s.startPosition
    /\ bpm' = s.bpm
    /\ progress' = s.progress
    /\ isLooping' = s.isLooping
    /\ lastTimestamp' = s.lastTimestamp
    /\ bars' = s.bars

\* cancelAnimationFrame(animationFrame): removes the request the handle names
\* if it has not run yet; d and q are the requests before the call.
CancelFrame(handle, d, q) ==
    /\ due' = IF handle = "due" THEN d - 1 ELSE d
    /\ queued' = IF handle = "queued" THEN q - 1 ELSE q
    /\ animationFrame' = "none"

\* animationFrame = requestAnimationFrame(tick)
RequestFrame(d, q) ==
    /\ due' = d
    /\ queued' = q + 1
    /\ animationFrame' = "queued"


\* The notifications raised and the time of the tick are recorded for the
\* run that started with the last play().
ObserveRun(ev) ==
    /\ loopCompletes' = loopCompletes +
           Cardinality({i \in DOMAIN ev : ev[i] = "onLoopComplete"})
    /\ advances' = advances +
           Cardinality({i \in DOMAIN ev : ev[i] = "onBarChange"})
    /\ prevFrameAt' = lastFrameAt
    /\ lastFrameAt' = now
    /\ UNCHANGED playedAt

\* tick(timestamp), the callback of one animation-frame request, run at the
\* frame whose timestamp is now.  Requests run in the order they were made,
\* so the one the handle names runs last.  A throw is caught and ends in
\* stop().
TickCore(fault) ==
    /\ due > 0
    /\ LET runsHandle == animationFrame = "due" /\ due = 1
           handle == IF runsHandle THEN "none" ELSE animationFrame
           s0 == [SeqState EXCEPT
                     !.lastTimestamp = IF lastTimestamp = 0 THEN now ELSE @]
           s == TickTry(s0, now, fault)
       IN  /\ (fault # "none") => s.threw
           /\ IF s.threw
              THEN /\ SetSeq(StopState(s))
                   /\ CancelFrame(handle, due - 1, queued)
              ELSE /\ SetSeq(s)
                   /\ IF s.isPlaying
                      THEN RequestFrame(due - 1, queued)
                      ELSE /\ due' = due - 1
                           /\ queued' = queued
                           /\ animationFrame' = handle
           /\ emitted' = IF s.threw THEN Append(s.emitted, "throw")
                         ELSE s.emitted
    /\ now' = now

\* Faulty variant of play(): no animation frame is requested.
PlayCoreNoFrame ==
    /\ due + queued < MaxRequests
    /\ SetSeq([SeqState EXCEPT !.isPlaying = TRUE, !.progress = 0,
                               !.lastTimestamp = now, !.isLooping = FALSE])
    /\ UNCHANGED <<due, queued, animationFrame>>
    /\ now' = now
    /\ emitted' = <<>>

\* play()
PlayCore ==
    /\ due + queued < MaxRequests
    /\ SetSeq([SeqState EXCEPT !.isPlaying = TRUE, !.progress = 0,
                               !.lastTimestamp = now, !.isLooping = FALSE])
    /\ RequestFrame(due, queued)
    /\ now' = now
    /\ emitted' = <<>>

Faults == {"none", "onTick", "onLoopComplete", "onBarChange"}

Tick == \E fault \in Faults : TickCore(fault) /\ UNCHANGED runVars

Play == PlayCore /\ UNCHANGED runVars

\* resume()
Resume ==
    /\ due + queued < MaxRequests
    /\ SetSeq([SeqState EXCEPT !.isPlaying = TRUE,
                  !.lastTimestamp = now - ProgressMs(progress, bpm)])
    /\ RequestFrame(due, queued)
    /\ now' = now
    /\ emitted' = <<>>
    /\ UNCHANGED runVars

\* pause()
Pause ==
    /\ SetSeq(PauseState(SeqState))
    /\ CancelFrame(animationFrame, due, queued)
    /\ now' = now
    /\ emitted' = <<>>
    /\ UNCHANGED runVars

\* stop()
Stop ==
    /\ SetSeq(StopState(SeqState))
    /\ CancelFrame(animationFrame, due, queued)
    /\ now' = now
    /\ emitted' = <<>>
    /\ UNCHANGED runVars

\* Faulty variant of the clamp: no upper limit.
ClampBpmOpen(newBPM) == Max(MinBpm, newBPM)

\* Math.max(30, Math.min(300, newBPM))
ClampBpm(newBPM) == Max(MinBpm, Min(MaxBpm, newBPM))

\* setBPM(newBPM) for one argument
SetBPMTo(newBPM) ==
    /\ SetSeq([SeqState EXCEPT !.bpm = ClampBpm(newBPM)])
    /\ emitted' = <<>>
    /\ UNCHANGED <<frameVars, runVars>>

\* setBPM(newBPM)
SetBPM == \E newBPM \in BpmInputs : SetBPMTo(newBPM)

\* Faulty variant of setStartPosition: the clock anchor is kept.
SetStartPositionKeepClock(position) ==
    /\ SetSeq([SeqState EXCEPT !.startPosition = position,
                  !.currentBar = position, !.progress = 0,
                  !.isLooping = FALSE])
    /\ emitted' = <<>>
    /\ UNCHANGED <<frameVars, runVars>>

\* setStartPosition(position) for one argument
SetStartPositionTo(position) ==
    /\ SetSeq([SeqState EXCEPT !.startPosition = position,
                  !.currentBar = position, !.progress = 0,
                  !.lastTimestamp = 0, !.isLooping = FALSE])
    /\ emitted' = <<>>
    /\ UNCHANGED <<frameVars, runVars>>

\* setStartPosition(position)
SetStartPosition ==
    \E position \in StartPositions : SetStartPositionTo(position)

\* The value the bars watcher leaves: it calls stop().
BarsWatcher(s) == StopState(s)

\* bars.value = n with n different from the value held: the watcher on bars
\* runs before any other callback.
SetBars ==
    \E n \in 1..MaxBars :
        /\ n # bars
        /\ SetSeq(BarsWatcher([SeqState EXCEPT !.bars = n]))
        /\ CancelFrame(animationFrame, due, queued)
        /\ now' = now
        /\ emitted' = <<>>
        /\ UNCHANGED runVars

\* The next frame: the clock moves on by gap once every callback of the
\* current frame has run; the requests made meanwhile become due.
NextFrame(gap, limit) ==
    /\ due = 0
    /\ now + gap <= TimeOrigin + limit * FramePeriod
    /\ now' = now + gap
    /\ due' = queued
    /\ queued' = 0
    /\ animationFrame' = IF animationFrame = "queued" THEN "due"
                         ELSE animationFrame
    /\ emitted' = <<>>
    /\ UNCHANGED <<seqVars, runVars>>

AdvanceTime == NextFrame(FramePeriod, MaxFrames)

\* State after useSequencer(bars, events) has run.
InitTransport ==
    /\ isPlaying = FALSE
    /\ currentBar = 0
    /\ startPosition = 0
    /\ bpm = InitialBpm
    /\ progress = 0
    /\ isLooping = FALSE
    /\ lastTimestamp = 0
    /\ bars \in 1..MaxBars
    /\ now = TimeOrigin
    /\ due = 0
    /\ queued = 0
    /\ animationFrame = "none"
    /\ emitted = <<>>
    /\ loopCompletes = 0
    /\ advances = 0
    /\ playedAt = 0
    /\ lastFrameAt = 0
    /\ prevFrameAt = 0

\* State of the observation before play().
InitPause ==
    /\ phase = "idle"
    /\ retained = [bar |-> 0, progress |-> 0, at |-> 0]
    /\ resumedAt = 0
    /\ barPlayed = 0
    /\ reported = [bar |-> 0, progress |-> 0]
    /\ ticksSinceResume = 0
    /\ advancedSinceResume = FALSE

(* ====================== harmony: HarmonyManager ======================= *)

MAX_ROOT_REPETITIONS == 4
HistoryLimit == 8

Levels == 0..4
DaysOfWeek == 0..6

scales ==
    [major |-> <<"C", "D", "E", "F", "G", "A", "B">>,
     minor |-> <<"C", "D", "Eb", "F", "G", "Ab", "Bb">>]

progressions ==
    [basic |-> <<"I", "IV", "V", "I">>,
     pop |-> <<"I", "V", "vi", "IV">>,
     jazz |-> <<"ii", "V", "I">>,
     emotional |-> <<"vi", "IV", "I", "V">>]

primaryDegrees == <<0, 3, 4>>

\* Array.prototype.indexOf: the 0-based index of the first x in a, or -1
IndexOf(a, x) ==
    IF \E i \in DOMAIN a : a[i] = x
    THEN (CHOOSE i \in DOMAIN a : a[i] = x /\ \A j \in 1..(i - 1) : a[j] # x) - 1
    ELSE -1

\* a.filter(...).length for the entries equal to x
CountOf(a, x) == Cardinality({i \in DOMAIN a : a[i] = x})

\* a.filter((root) => root !== x)
Without(a, x) == SelectSeq(a, LAMBDA root : root # x)

\* Faulty variant of getAvailableRoots: the seventh degree is offered too.
GetAvailableRootsWide(scale) ==
    [i \in 1..4 |-> scales[scale][<<0, 3, 4, 6>>[i] + 1]]

\* Faulty variant of getAvailableRoots: the third degree replaces the
\* fourth.
GetAvailableRootsMediant(scale) ==
    [i \in 1..3 |-> scales[scale][<<0, 2, 4>>[i] + 1]]

\* getAvailableRoots(), for the scale given
GetAvailableRoots(scale) ==
    [i \in DOMAIN primaryDegrees |-> scales[scale][primaryDegrees[i] + 1]]

\* Faulty variant of getNextHarmonicRoot: the switch is forced one repetition
\* late.
GetNextHarmonicRootLate(key, scale, history, r) ==
    LET newRoots == Without(GetAvailableRoots(scale), key) IN
    IF CountOf(history, key) > MAX_ROOT_REPETITIONS
    THEN newRoots[(r % Len(newRoots)) + 1]
    ELSE key

\* Faulty variant of getNextHarmonicRoot: the key is never left.
GetNextHarmonicRootNever(key, scale, history, r) == key

\* getNextHarmonicRoot(); r is the value of
\* Math.floor(Math.random() * newRoots.length)
GetNextHarmonicRoot(key, scale, history, r) ==
    LET newRoots == Without(GetAvailableRoots(scale), key) IN
    IF CountOf(history, key) >= MAX_ROOT_REPETITIONS
    THEN newRoots[(r % Len(newRoots)) + 1]
    ELSE key

\* Faulty variant of alignProgressionWithRoot: the two templates are swapped.
AlignProgressionWithRootSwapped(newRoot, scale, progression) ==
    LET rootIndex == IndexOf(scales[scale], newRoot) IN
    IF rootIndex = 4 THEN progressions.pop
    ELSE IF rootIndex = 3 THEN progressions.basic
    ELSE progression

\* alignProgressionWithRoot(newRoot)
AlignProgressionWithRoot(newRoot, scale, progression) ==
    LET rootIndex == IndexOf(scales[scale], newRoot) IN
    IF rootIndex = 4 THEN progressions.basic
    ELSE IF rootIndex = 3 THEN progressions.pop
    ELSE progression

\* The random indices a call can draw: newRoots has at most three entries.
RandomIndices == 0..2

\* Faulty variant of the history update: a full history drops the root just
\* pushed instead of the oldest one.
PushRootDropNewest(history, root) ==
    IF Len(history) + 1 > HistoryLimit THEN history
    ELSE Append(history, root)

\* this.rootHistory.push(nextRoot); if (length > 8) this.rootHistory.shift()
PushRoot(history, root) ==
    LET pushed == Append(history, root) IN
    IF Len(pushed) > HistoryLimit THEN Tail(pushed) ELSE pushed

\* Faulty variant of determineHarmony: Sunday is always major.
DetermineHarmonyByDay(contributionLevel, dayOfWeek, r) ==
    LET scale == IF contributionLevel > 2 \/ dayOfWeek = 0 THEN "major"
                 ELSE "minor"
        newRoots == Without(GetAvailableRoots(scale), currentKey)
        nextRoot == GetNextHarmonicRoot(currentKey, scale, rootHistory, r)
    IN  /\ r < Len(newRoots)
        /\ currentScale' = scale
        /\ currentKey' = nextRoot
        /\ currentProgression' =
               AlignProgressionWithRoot(nextRoot, scale, currentProgression)
        /\ rootHistory' = PushRoot(rootHistory, nextRoot)
        /\ UNCHANGED <<transportVars, audioVars, synthVars, probeVars,
                       pauseVars, dayVars, genVars, bpmVars>>

\* determineHarmony(contributionLevel, dayOfWeek) drawing the random index r
DetermineHarmonyWith(contributionLevel, dayOfWeek, r) ==
    LET scale == IF contributionLevel > 2 THEN "major" ELSE "minor"
        newRoots == Without(GetAvailableRoots(scale), currentKey)
        nextRoot == GetNextHarmonicRoot(currentKey, scale, rootHistory, r)
    IN  /\ r < Len(newRoots)
        /\ currentScale' = scale
        /\ currentKey' = nextRoot
        /\ currentProgression' =
               AlignProgressionWithRoot(nextRoot, scale, currentProgression)
        /\ rootHistory' = PushRoot(rootHistory, nextRoot)
        /\ UNCHANGED <<transportVars, audioVars, synthVars, probeVars,
                       pauseVars, dayVars, genVars, bpmVars>>

\* determineHarmony(contributionLevel, dayOfWeek)
DetermineHarmony ==
    \E contributionLevel \in Levels, dayOfWeek \in DaysOfWeek,
       r \in RandomIndices :
        DetermineHarmonyWith(contributionLevel, dayOfWeek, r)

\* State after new HarmonyManager().
InitHarmony ==
    /\ currentKey = "C"
    /\ currentScale = "major"
    /\ currentProgression = progressions.basic
    /\ rootHistory = <<>>

(* ============ chords: getChordNotes, getExtendedHarmony ================ *)

\* A JavaScript string is the sequence of its characters.
Digits == <<"0", "1", "2", "3", "4", "5", "6", "7", "8", "9">>
UpperCase ==
    {"A", "B", "C", "D", "E", "F", "G", "H", "I", "J", "K", "L", "M", "N",
     "O", "P", "Q", "R", "S", "T", "U", "V", "W", "X", "Y", "Z"}

\* The characters of the note names of the scale tables and of the chord
\* symbols used.
Chars ==
    [x \in {"C", "D", "E", "F", "G", "A", "B", "Eb", "Ab", "Bb", "", "I",
            "i", "ii", "IV", "V", "vi", "I7", "Isus4", "ii7", "V7sus4",
            "vsus4"} |->
        CASE x = "Eb" -> <<"E", "b">>
          [] x = "Ab" -> <<"A", "b">>
          [] x = "Bb" -> <<"B", "b">>
          [] x = "" -> <<>>
          [] x = "ii" -> <<"i", "i">>
          [] x = "IV" -> <<"I", "V">>
          [] x = "vi" -> <<"v", "i">>
          [] x = "I7" -> <<"I", "7">>
          [] x = "Isus4" -> <<"I", "s", "u", "s", "4">>
          [] x = "ii7" -> <<"i", "i", "7">>
          [] x = "V7sus4" -> <<"V", "7", "s", "u", "s", "4">>
          [] x = "vsus4" -> <<"v", "s", "u", "s", "4">>
          [] OTHER -> <<x>>]

\* The decimal representation of a natural number
RECURSIVE DigitChars(_)
DigitChars(n) ==
    IF n < 10 THEN <<Digits[n + 1]>>
    ELSE DigitChars(n \div 10) \o <<Digits[(n % 10) + 1]>>

\* `${note}${octave}`
NoteString(note, octave) == Chars[note] \o DigitChars(octave)

\* s.includes(t)
Includes(s, t) ==
    \E i \in 0..(Len(s) - Len(t)) : SubSeq(s, i + 1, i + Len(t)) = t

\* s.toLowerCase() === s
IsLowerCase(s) == \A i \in DOMAIN s : s[i] \notin UpperCase

\* note.match(/^[A-G][b#]?\d$/)
MatchesNote(s) ==
    /\ Len(s) \in {2, 3}
    /\ s[1] \in {"A", "B", "C", "D", "E", "F", "G"}
    /\ Len(s) = 3 => s[2] \in {"b", "#"}
    /\ s[Len(s)] \in Range(Digits)

\* note.replace(/\d/, d): the first digit is replaced
ReplaceDigit(s, d) ==
    IF \E i \in DOMAIN s : s[i] \in Range(Digits)
    THEN LET first == CHOOSE i \in DOMAIN s :
                          /\ s[i] \in Range(Digits)
                          /\ \A j \in 1..(i - 1) : s[j] \notin Range(Digits)
         IN  [s EXCEPT ![first] = d]
    ELSE s

noteOffsets ==
    [major |-> <<0, 2, 4, 5, 7, 9, 11>>, minor |-> <<0, 2, 3, 5, 7, 8, 10>>]

chordIntervals ==
    [major |-> <<0, 4, 7>>, minor |-> <<0, 3, 7>>, dom7 |-> <<0, 4, 7, 10>>,
     min7 |-> <<0, 3, 7, 10>>, sus4 |-> <<0, 5, 7>>]

defaultNotes ==
    [major |-> [bass |-> <<"C", "2">>,
                chord |-> << <<"C", "3">>, <<"E", "3">>, <<"G", "3">> >>,
                extensions |-> << <<"C", "4">>, <<"E", "4">>, <<"G", "4">> >>],
     minor |-> [bass |-> <<"A", "2">>,
                chord |-> << <<"A", "3">>, <<"C", "4">>, <<"E", "4">> >>,
                extensions |-> << <<"A", "4">>, <<"C", "4">>, <<"E", "4">> >>]]

\* Faulty variant of getChordType: the lower-case test comes first.
GetChordTypeMinorFirst(chordSymbol) ==
    IF IsLowerCase(Chars[chordSymbol]) THEN "minor"
    ELSE IF Includes(Chars[chordSymbol], <<"7">>) THEN "dom7"
    ELSE IF Includes(Chars[chordSymbol], <<"s", "u", "s", "4">>) THEN "sus4"
    ELSE "major"

\* getChordType(chordSymbol)
GetChordType(chordSymbol) ==
    IF Includes(Chars[chordSymbol], <<"7">>) THEN "dom7"
    ELSE IF Includes(Chars[chordSymbol], <<"s", "u", "s", "4">>) THEN "sus4"
    ELSE IF IsLowerCase(Chars[chordSymbol]) THEN "minor"
    ELSE "major"

\* Faulty variant of the octave: the interval is not divided into octaves.
OctaveOfWide(interval) == interval + 4

\* Math.floor(interval / 7) + 4
OctaveOf(interval) == (interval \div 7) + 4

\* getChordNotes(chordSymbol) with the given current key and scale
GetChordNotes(key, scaleType, chordSymbol) ==
    LET offsets == noteOffsets[scaleType]
        rootIndex == IndexOf(scales[scaleType], key)
        intervals == chordIntervals[GetChordType(chordSymbol)]
        notes == [i \in DOMAIN intervals |->
                     LET offset == (rootIndex + offsets[(intervals[i] % 7) + 1])
                                   % 7
                         octave == OctaveOf(intervals[i])
                     IN  IF offset + 1 \in DOMAIN scales[scaleType]
                         THEN NoteString(scales[scaleType][offset + 1], octave)
                         ELSE <<>>]
    IN  IF rootIndex = -1 \/ chordSymbol = "" THEN <<>>
        ELSE IF \A i \in DOMAIN notes : notes[i] # <<>> THEN notes
        ELSE <<>>

\* The body of the try block of getExtendedHarmony after the default-notes
\* test: baseChord[0].replace throws a TypeError on an empty chord.
BuildHarmony(baseChord, level) ==
    IF baseChord = <<>>
    THEN [threw |-> TRUE, bass |-> <<>>, chord |-> <<>>, extensions |-> <<>>]
    ELSE [threw |-> FALSE,
          bass |-> ReplaceDigit(baseChord[1], "2"),
          chord |-> [i \in DOMAIN baseChord |->
                        ReplaceDigit(baseChord[i], "3")],
          extensions |->
              IF level > 2
              THEN [i \in DOMAIN baseChord |->
                       ReplaceDigit(baseChord[i], "4")]
                   \o <<ReplaceDigit(baseChord[1], "5")>>
              ELSE [i \in DOMAIN baseChord |->
                       ReplaceDigit(baseChord[i], "4")]]

\* A value returned by getExtendedHarmony
Returned(h) == [bass |-> h.bass, chord |-> h.chord, extensions |-> h.extensions]

\* Faulty variant of getExtendedHarmony: what was built is returned even
\* when building it threw.
GetExtendedHarmonyUncaught(key, scaleType, level) ==
    Returned(BuildHarmony(
        GetChordNotes(key, scaleType, IF level > 2 THEN "I" ELSE "i"), level))

\* Faulty variant of getExtendedHarmony: the octave-5 note is appended at
\* every level.
GetExtendedHarmonyAlwaysFifth(key, scaleType, level) ==
    LET progression == IF level > 2 THEN "major" ELSE "minor"
        baseChord ==
            GetChordNotes(key, scaleType, IF level > 2 THEN "I" ELSE "i")
    IN  IF baseChord = <<>> THEN defaultNotes[progression]
        ELSE [bass |-> ReplaceDigit(baseChord[1], "2"),
              chord |-> [i \in DOMAIN baseChord |->
                            ReplaceDigit(baseChord[i], "3")],
              extensions |->
                  [i \in DOMAIN baseChord |-> ReplaceDigit(baseChord[i], "4")]
                  \o <<ReplaceDigit(baseChord[1], "5")>>]

\* getExtendedHarmony(level) with the given current key and scale
GetExtendedHarmony(key, scaleType, level) ==
    LET progression == IF level > 2 THEN "major" ELSE "minor"
        chordSymbol == IF level > 2 THEN "I" ELSE "i"
        baseChord == GetChordNotes(key, scaleType, chordSymbol)
        built == BuildHarmony(baseChord, level)
    IN  IF ~(\A i \in DOMAIN baseChord : MatchesNote(baseChord[i]))
        THEN defaultNotes[progression]
        ELSE IF built.threw THEN defaultNotes[progression]
        ELSE Returned(built)

\* Arguments and states tried for the two functions.
ChordRoots == {"C", "D", "E", "F", "G", "A"}
ChordSymbols ==
    {"I", "ii", "IV", "V", "vi", "I7", "Isus4", "ii7", "V7sus4", "vsus4", ""}

\* The functions applied to one choice of key, scale, symbol and level
ProbeOf(key, scaleType, chordSymbol, level) ==
    [called |-> TRUE, key |-> key, scale |-> scaleType,
     symbol |-> chordSymbol, level |-> level,
     chord |-> GetChordNotes(key, scaleType, chordSymbol),
     baseChord |->
         GetChordNotes(key, scaleType, IF level > 2 THEN "I" ELSE "i"),
     harmony |-> GetExtendedHarmony(key, scaleType, level)]

\* getChordNotes(symbol) and getExtendedHarmony(level) are called on a
\* HarmonyManager whose key and scale are the ones chosen.
Probe ==
    \E key \in ChordRoots, scaleType \in DOMAIN scales,
       chordSymbol \in ChordSymbols, level \in Levels :
        /\ ~probe.called
        /\ probe' = ProbeOf(key, scaleType, chordSymbol, level)

\* No call has been made.
InitProbe == probe = [called |-> FALSE]

(* ===== audio: useOrchestrator, usePatternHandler, useVoiceManager ===== *)

MAX_VOICES == 4

\* rhythmPatterns, velocities in tenths; entry level + 1 is `level${level}`
rhythmPatterns ==
    [bass |-> << <<0>>, <<10, 0, 0, 0>>, <<10, 0, 7, 0>>, <<10, 6, 8, 6>>,
                 <<10, 7, 9, 8, 6, 8, 7, 9>> >>,
     chords |-> << <<0>>, <<10, 0, 7, 0>>, <<10, 0, 7, 0>>,
                   <<9, 0, 7, 0, 8, 0, 7, 0>>,
                   <<10, 6, 8, 5, 9, 6, 7, 8>> >>]

\* a[i] for a 0-based index i; "undefined" past the end
At(a, i) == IF i + 1 \in DOMAIN a THEN a[i + 1] ELSE "undefined"

\* Array.prototype.reverse
Reverse(a) == [i \in DOMAIN a |-> a[Len(a) + 1 - i]]

\* notes.slice(1, -1)
Interior(a) == IF Len(a) <= 2 THEN <<>> ELSE SubSeq(a, 2, Len(a) - 1)

\* Faulty variant of the arpeggio transforms: level 3 comes down through
\* every note.
ArpeggioPatternFullDescent(level, notes) ==
    IF level = 3 THEN notes \o Reverse(notes)
    ELSE IF level = 4
    THEN <<At(notes, 0), At(notes, 1), At(notes, 0), At(notes, 2),
           At(notes, 1), At(notes, 2), At(notes, 1), At(notes, 0)>>
    ELSE notes

\* arpeggioPatterns[`level${level}`] || arpeggioPatterns.level2, applied
ArpeggioPattern(level, notes) ==
    IF level = 3 THEN notes \o Reverse(Interior(notes))
    ELSE IF level = 4
    THEN <<At(notes, 0), At(notes, 1), At(notes, 0), At(notes, 2),
           At(notes, 1), At(notes, 2), At(notes, 1), At(notes, 0)>>
    ELSE notes

\* Faulty variant of the table lookup: an undefined level is silent.
RhythmPatternSilentFallback(type, level) ==
    IF level + 1 \in DOMAIN rhythmPatterns[type]
    THEN rhythmPatterns[type][level + 1]
    ELSE rhythmPatterns[type][1]

\* patterns[`level${level}`] || patterns.level1
RhythmPattern(type, level) ==
    IF level + 1 \in DOMAIN rhythmPatterns[type]
    THEN rhythmPatterns[type][level + 1]
    ELSE rhythmPatterns[type][2]

\* Faulty variant of generatePattern: every second call of the generator
\* returns the notes in reverse.
GeneratePatternAlternating(type, level, notes) ==
    IF type = "arpeggio" /\ level > 1
    THEN ArpeggioPattern(level,
             IF genCalls % 2 = 1 THEN Reverse(notes) ELSE notes)
    ELSE IF type \in {"bass", "chords"}
    THEN [pattern |-> RhythmPattern(type, level),
          notes |-> IF genCalls % 2 = 1 THEN Reverse(notes) ELSE notes]
    ELSE notes

\* generatePattern(type, level, notes): a note sequence for the arpeggio,
\* [pattern, notes] for bass and chords
GeneratePattern(type, level, notes) ==
    IF type = "arpeggio" /\ level > 1 THEN ArpeggioPattern(level, notes)
    ELSE IF type \in {"bass", "chords"}
    THEN [pattern |-> RhythmPattern(type, level), notes |-> notes]
    ELSE notes

\* One call of generatePattern with its result.
GenCall(type, level, notes) ==
    [type |-> type, level |-> level, notes |-> notes,
     result |-> GeneratePattern(type, level, notes)]

\* patternGenerator.generatePattern(type, level, notes) is called.
Generate ==
    \E type \in GenTypes, level \in GenLevels, notes \in GenNotes :
        /\ genCalls < MaxGenCalls
        /\ genCalls' = genCalls + 1
        /\ genLast' = GenCall(type, level, notes)
        /\ genFirst' = IF genCalls = 0 THEN GenCall(type, level, notes)
                       ELSE genFirst

\* No call has been made on the new PatternGenerator.
NoCall == [type |-> "none", level |-> 0, notes |-> <<>>, result |-> <<>>]

InitGen ==
    /\ genCalls = 0
    /\ genFirst = NoCall
    /\ genLast = NoCall

\* A JavaScript value used as a condition
Truthy(x) == x \notin {"", "undefined"}

AnyActiveStep(pattern) == \E i \in DOMAIN pattern : pattern[i] > 0

\* updateVoiceStatus(delta): the new active count
UpdateVoiceStatus(active, delta) == Max(0, active + delta)

\* Faulty variant of the allocation test: every step is granted.
VoiceFitsAlways(active, n) == TRUE

\* Faulty variant of the allocation test: a chord counts as one voice.
VoiceFitsPerChord(active, n) == active + 1 <= MAX_VOICES

\* voiceStatus.value.active + limitedNotes.length <= MAX_VOICES
VoiceFits(active, n) == active + n <= MAX_VOICES

\* The forEach of executePattern from step i on: acc is [active, grants];
\* n is limitedNotes.length.
RECURSIVE ExecuteSteps(_, _, _, _)
ExecuteSteps(pattern, i, n, acc) ==
    IF i > Len(pattern) THEN acc
    ELSE IF pattern[i] > 0 /\ VoiceFits(acc.active, n)
    THEN ExecuteSteps(pattern, i + 1, n,
             [active |-> UpdateVoiceStatus(acc.active, n),
              grants |-> Append(acc.grants,
                                [before |-> acc.active, notes |-> n])])
    ELSE ExecuteSteps(pattern, i + 1, n, acc)

\* Callers that can have a call in progress at the same time.
Callers == {1, 2}
\* Clock resolution of Tone.now() and the clock values explored.
TicksPerSecond == 2
MaxToneNow == 3
\* Animation-frame requests for animate that can be pending at once.
MaxAnimateRequests == 3
\* Arguments tried for playPattern.
PatternTypes == {"bass", "chords", "arpeggio"}
PatternLevels == {0, 2, 4}
PlaybackLevels == {2}
PlaybackNoteLists == {<<>>, <<"C3">>}
NoteLists ==
    {<<>>, <<"C3">>, <<"C3", "E3", "G3">>, <<"C3", "E3", "G3", "C4">>}

SynthSets == {"orchestrator", "patternHandler"}
Voices == {"bass", "pad", "lead"}

IdleCall ==
    [pc |-> "idle", kind |-> "none", level |-> 0, notes |-> <<>>,
     now |-> 0, ok |-> FALSE]

\* initAudioContext() up to its first await: with the flag set it returns
\* at once, otherwise it waits for Tone.start().
InitAudioContextEntry ==
    IF isAudioContextInitialized THEN "initDone" ELSE "toneStart"

\* playPattern(type, level, notes) is called: it awaits initAudioContext().
CallPlayPattern(p, types, levels, lists) ==
    \E type \in types, level \in levels, notes \in lists :
        /\ calls[p].pc = "idle"
        /\ calls' = [calls EXCEPT ![p] =
               [IdleCall EXCEPT !.pc = InitAudioContextEntry, !.kind = type,
                                !.level = level, !.notes = notes]]
        /\ grants' = <<>>
        /\ UNCHANGED <<isAudioContextInitialized, orchIsPlaying,
                       animationFrameId, animateQueue, lastBeat, activeSynths,
                       voiceStatus, toneNow, sounding, startSequences>>

\* startPlayback() is called: it awaits initAudioContext().
CallStartPlayback(p) ==
    /\ calls[p].pc = "idle"
    /\ calls' = [calls EXCEPT ![p] =
           [IdleCall EXCEPT !.pc = InitAudioContextEntry,
                            !.kind = "startPlayback"]]
    /\ grants' = <<>>
    /\ UNCHANGED <<isAudioContextInitialized, orchIsPlaying, animationFrameId,
                   animateQueue, lastBeat, activeSynths, voiceStatus, toneNow,
                   sounding,
                   startSequences>>

\* await Tone.start() resolves; Tone.getContext().resume() is awaited.
ToneStarted(p) ==
    /\ calls[p].pc = "toneStart"
    /\ calls' = [calls EXCEPT ![p].pc = "ctxResume"]
    /\ grants' = <<>>
    /\ UNCHANGED <<isAudioContextInitialized, orchIsPlaying, animationFrameId,
                   animateQueue, lastBeat, activeSynths, voiceStatus, toneNow,
                   sounding,
                   startSequences>>

\* await Tone.getContext().resume() resolves: the warm-up note is triggered
\* on the orchestrator's padSynth and the flag is set.
ContextResumed(p) ==
    /\ calls[p].pc = "ctxResume"
    /\ sounding' = [sounding EXCEPT !["orchestrator"]["pad"] = TRUE]
    /\ isAudioContextInitialized' = TRUE
    /\ startSequences' = startSequences + 1
    /\ calls' = [calls EXCEPT ![p].pc = "initDone"]
    /\ grants' = <<>>
    /\ UNCHANGED <<orchIsPlaying, animationFrameId, animateQueue, lastBeat,
                   activeSynths, voiceStatus, toneNow>>

\* cleanupVoices() up to its await: padSynth.releaseAll() on the pattern
\* handler's padSynth, active = 0, pending = 0.
CleanupVoices(vs) == [vs EXCEPT !.active = 0, !.pending = 0]

\* currentBPM of the orchestrator and _bpm of its HarmonyManager, as
\* initialised
OrchestratorBpm == 120

\* Math.floor((timestamp * currentBPM.value) / 60) % 4
BeatOf(t) == ((t * currentBPM) \div (60 * TicksPerSecond)) % 4

\* getCurrentChord(timestamp) is a non-empty chord of non-empty notes: the
\* progression has a chord symbol at the beat (the key is always a note of
\* the scale).
CurrentChordPlayable(t) ==
    /\ BeatOf(t) + 1 \in DOMAIN currentProgression
    /\ Truthy(currentProgression[BeatOf(t) + 1])

\* requestAnimationFrame(animate) with the id stored in animationFrameId
RequestAnimate(q) == [i \in DOMAIN q |-> FALSE] \o <<TRUE>>

\* animate() with q the requests pending when it is entered
AnimateBody(playing, q) ==
    IF playing
    THEN /\ lastBeat' = BeatOf(toneNow)
         /\ sounding' = IF BeatOf(toneNow) # lastBeat
                           /\ CurrentChordPlayable(toneNow)
                        THEN [sounding EXCEPT !["orchestrator"]["pad"] = TRUE]
                        ELSE sounding
         /\ animationFrameId' = TRUE
         /\ animateQueue' = RequestAnimate(q)
    ELSE /\ animateQueue' = q
         /\ UNCHANGED <<lastBeat, sounding, animationFrameId>>

\* executePattern(pattern, 'chords', now) up to its await: manageVoices()
\* runs until it awaits cleanupVoices() or returns active < MAX_VOICES.
\* vs and snd are the voice status and the sounding notes on entry.
ExecutePatternEntry(p, vs, snd) ==
    IF toneNow - vs.lastCleanup > TicksPerSecond
    THEN /\ voiceStatus' = CleanupVoices(vs)
         /\ sounding' = [snd EXCEPT !["patternHandler"]["pad"] = FALSE]
         /\ calls' = [calls EXCEPT ![p].pc = "manageSettle",
                                   ![p].now = toneNow]
    ELSE /\ voiceStatus' = vs
         /\ sounding' = snd
         /\ calls' = [calls EXCEPT ![p].pc = "manageDone",
                                   ![p].now = toneNow,
                                   ![p].ok = (vs.active < MAX_VOICES)]

\* await initAudioContext() resolves in startPlayback: isPlaying = true and
\* animate() runs once.
StartPlaybackBody(p) ==
    /\ calls[p].pc = "initDone"
    /\ calls[p].kind = "startPlayback"
    /\ Len(animateQueue) < MaxAnimateRequests
    /\ orchIsPlaying' = TRUE
    /\ AnimateBody(TRUE, animateQueue)
    /\ calls' = [calls EXCEPT ![p] = IdleCall]
    /\ grants' = <<>>
    /\ UNCHANGED <<isAudioContextInitialized, activeSynths, voiceStatus,
                   toneNow, startSequences>>

\* await initAudioContext() resolves in playPattern: the voice's flag is
\* set; with notes the pattern is generated and, for bass and arpeggio,
\* triggered; for chords cleanupVoices() or executePattern() is awaited.
PlayPatternBody(p) ==
    /\ calls[p].pc = "initDone"
    /\ calls[p].kind \in {"bass", "chords", "arpeggio"}
    /\ LET c == calls[p]
           voice == IF c.kind = "bass" THEN "bass"
                    ELSE IF c.kind = "chords" THEN "pad" ELSE "lead"
           pattern == GeneratePattern(c.kind, c.level, c.notes)
       IN  /\ activeSynths' = [activeSynths EXCEPT ![voice] = TRUE]
           /\ IF c.notes = <<>>
              THEN /\ calls' = [calls EXCEPT ![p] = IdleCall]
                   /\ UNCHANGED <<voiceStatus, sounding>>
              ELSE IF c.kind = "bass"
              THEN /\ sounding' =
                          IF Truthy(At(pattern.notes, 0))
                             /\ AnyActiveStep(pattern.pattern)
                          THEN [sounding EXCEPT
                                   !["patternHandler"]["bass"] = TRUE]
                          ELSE sounding
                   /\ calls' = [calls EXCEPT ![p] = IdleCall]
                   /\ UNCHANGED voiceStatus
              ELSE IF c.kind = "arpeggio"
              THEN /\ sounding' =
                          IF pattern # <<>>
                             /\ \A i \in DOMAIN pattern : Truthy(pattern[i])
                          THEN [sounding EXCEPT
                                   !["patternHandler"]["lead"] = TRUE]
                          ELSE sounding
                   /\ calls' = [calls EXCEPT ![p] = IdleCall]
                   /\ UNCHANGED voiceStatus
              ELSE IF voiceStatus.active >= MAX_VOICES
              THEN /\ voiceStatus' = CleanupVoices(voiceStatus)
                   /\ sounding' = [sounding EXCEPT
                                      !["patternHandler"]["pad"] = FALSE]
                   /\ calls' = [calls EXCEPT ![p].pc = "settle"]
              ELSE ExecutePatternEntry(p, voiceStatus, sounding)
    /\ grants' = <<>>
    /\ UNCHANGED <<isAudioContextInitialized, orchIsPlaying, animationFrameId,
                   animateQueue, lastBeat, toneNow, startSequences>>

\* The settle delay of the cleanupVoices() awaited by playPattern is over:
\* executePattern is called.
SettleDone(p) ==
    /\ calls[p].pc = "settle"
    /\ ExecutePatternEntry(p, voiceStatus, sounding)
    /\ grants' = <<>>
    /\ UNCHANGED <<isAudioContextInitialized, orchIsPlaying, animationFrameId,
                   animateQueue, lastBeat, activeSynths, toneNow,
                   startSequences>>

\* The settle delay of the cleanupVoices() awaited by manageVoices is over:
\* lastCleanup takes the time read on entry and manageVoices returns.
ManageSettleDone(p) ==
    /\ calls[p].pc = "manageSettle"
    /\ voiceStatus' = [voiceStatus EXCEPT !.lastCleanup = calls[p].now]
    /\ calls' = [calls EXCEPT ![p].pc = "manageDone",
                              ![p].ok = (voiceStatus.active < MAX_VOICES)]
    /\ grants' = <<>>
    /\ UNCHANGED <<isAudioContextInitialized, orchIsPlaying, animationFrameId,
                   animateQueue, lastBeat, activeSynths, toneNow, sounding,
                   startSequences>>

\* await manageVoices() resolves in executePattern: with a false result it
\* returns, otherwise the steps of the pattern are triggered while they fit.
ManageDone(p) ==
    /\ calls[p].pc = "manageDone"
    /\ LET c == calls[p]
           pattern == GeneratePattern(c.kind, c.level, c.notes)
           n == Min(Len(pattern.notes), 3)
           r == ExecuteSteps(pattern.pattern, 1, n,
                             [active |-> voiceStatus.active, grants |-> <<>>])
       IN  IF c.ok
           THEN /\ voiceStatus' = [voiceStatus EXCEPT !.active = r.active]
                /\ grants' = r.grants
                /\ sounding' = IF r.grants # <<>>
                               THEN [sounding EXCEPT
                                        !["patternHandler"]["pad"] = TRUE]
                               ELSE sounding
           ELSE /\ grants' = <<>>
                /\ UNCHANGED <<voiceStatus, sounding>>
    /\ calls' = [calls EXCEPT ![p] = IdleCall]
    /\ UNCHANGED <<isAudioContextInitialized, orchIsPlaying, animationFrameId,
                   animateQueue, lastBeat, activeSynths, toneNow,
                   startSequences>>

\* stopPlayback(): the flags are reset, the animation frame is cancelled and
\* the orchestrator's own bassSynth, padSynth and leadSynth are released.
StopPlayback ==
    /\ orchIsPlaying' = FALSE
    /\ activeSynths' = [bass |-> FALSE, pad |-> FALSE, lead |-> FALSE]
    /\ animationFrameId' = FALSE
    /\ animateQueue' = IF animationFrameId
                       THEN SelectSeq(animateQueue, LAMBDA named : ~named)
                       ELSE animateQueue
    /\ sounding' = [sounding EXCEPT
                       !["orchestrator"] = [v \in Voices |-> FALSE]]
    /\ grants' = <<>>
    /\ UNCHANGED <<isAudioContextInitialized, lastBeat, voiceStatus, toneNow,
                   calls, startSequences>>

\* animate(), the orchestrator's animation-frame callback: while playing the
\* chord of a new beat is triggered on the orchestrator's padSynth and the
\* next frame is requested.
Animate ==
    /\ animateQueue # <<>>
    /\ AnimateBody(orchIsPlaying, Tail(animateQueue))
    /\ grants' = <<>>
    /\ UNCHANGED <<isAudioContextInitialized, orchIsPlaying, activeSynths,
                   voiceStatus, toneNow, calls, startSequences>>

\* Tone.now() moves on by one tick.
AdvanceTone ==
    /\ toneNow < MaxToneNow
    /\ toneNow' = toneNow + 1
    /\ grants' = <<>>
    /\ UNCHANGED <<isAudioContextInitialized, orchIsPlaying, animationFrameId,
                   animateQueue, lastBeat, activeSynths, voiceStatus, calls,
                   sounding,
                   startSequences>>

\* State after useOrchestrator() has run: usePatternHandler and
\* useSynthDefinitions were called, and a first animation frame requested.
InitAudio ==
    /\ isAudioContextInitialized = FALSE
    /\ orchIsPlaying = FALSE
    /\ animationFrameId = TRUE
    /\ animateQueue = <<TRUE, FALSE>>
    /\ lastBeat = -1
    /\ activeSynths = [bass |-> FALSE, pad |-> FALSE, lead |-> FALSE]
    /\ voiceStatus = [active |-> 0, pending |-> 0, lastCleanup |-> 0]
    /\ toneNow = 0
    /\ calls = [p \in Callers |-> IdleCall]
    /\ sounding = [i \in SynthSets |-> [v \in Voices |-> FALSE]]
    /\ startSequences = 0
    /\ grants = <<>>

\* State after useOrchestrator() has run: currentBPM = ref(120), and the
\* HarmonyManager's _bpm = ref(120).
InitBpm ==
    /\ currentBPM = OrchestratorBpm
    /\ harmonyBpm = OrchestratorBpm

NextAudio ==
    \/ \E p \in Callers :
          CallPlayPattern(p, PatternTypes, PlaybackLevels, PlaybackNoteLists)
    \/ \E p \in Callers : CallStartPlayback(p)
    \/ \E p \in Callers : ToneStarted(p)
    \/ \E p \in Callers : ContextResumed(p)
    \/ \E p \in Callers : StartPlaybackBody(p)
    \/ \E p \in Callers : PlayPatternBody(p)
    \/ \E p \in Callers : SettleDone(p)
    \/ \E p \in Callers : ManageDone(p)
    \/ StopPlayback
    \/ Animate

NextVoices ==
    \/ \E p \in Callers :
          CallPlayPattern(p, {"chords"}, PatternLevels, NoteLists)
    \/ \E p \in Callers : ToneStarted(p)
    \/ \E p \in Callers : ContextResumed(p)
    \/ \E p \in Callers : PlayPatternBody(p)
    \/ \E p \in Callers : SettleDone(p)
    \/ \E p \in Callers : ManageSettleDone(p)
    \/ \E p \in Callers : ManageDone(p)
    \/ AdvanceTone

(* ========= day patterns: composables/useSequencer, updateHarmony ====== *)

\* bpm = ref(120)
SeqBpm == 120
\* setTimeout(..., index * 50) and setTimeout(..., 100)
StaggerMs == 50
TriggerMs == 100

\* The HarmonyManager's refs and history, as one value.
HarmonyState ==
    [key |-> currentKey, scale |-> currentScale,
     progression |-> currentProgression, history |-> rootHistory]

\* determineHarmony(contributionLevel, dayOfWeek) on a manager in state h; r
\* is the random index drawn.
DetermineHarmonyOn(h, contributionLevel, r) ==
    LET scale == IF contributionLevel > 2 THEN "major" ELSE "minor"
        nextRoot == GetNextHarmonicRoot(h.key, scale, h.history, r)
    IN  [key |-> nextRoot, scale |-> scale,
         progression |-> AlignProgressionWithRoot(nextRoot, scale,
                                                  h.progression),
         history |-> PushRoot(h.history, nextRoot)]

\* index * 50
DayDelay(index) == index * StaggerMs

\* handleDayPatterns from the day at index on: days are the levels of the
\* day elements, rs the random indices drawn, acc the manager state, the
\* timers and the log so far.  Every day with level > 0 calls updateHarmony
\* at once and defers its playPattern calls with setTimeout.
RECURSIVE HandleDayPatterns(_, _, _, _)
HandleDayPatterns(days, rs, index, acc) ==
    IF index >= Len(days) THEN acc
    ELSE
        LET level == days[index + 1]
            h == DetermineHarmonyOn(acc.harmony, level, rs[index + 1])
            harmony == GetExtendedHarmony(h.key, h.scale, level)
        IN  IF level > 0
            THEN HandleDayPatterns(days, rs, index + 1,
                   [harmony |-> h,
                    timers |->
                        IF Len(harmony.chord) > 0
                        THEN Append(acc.timers,
                                 [kind |-> "patterns",
                                  due |-> dayNow + DayDelay(index),
                                  day |-> index, level |-> level,
                                  harmony |-> harmony,
                                  by |-> dayTicks + 1])
                        ELSE acc.timers,
                    log |-> Append(acc.log,
                                [kind |-> "updateHarmony", day |-> index,
                                 level |-> level, type |-> "none",
                                 by |-> dayTicks + 1, task |-> "tick",
                                 notes |-> harmony.chord, lead |-> FALSE])])
            ELSE HandleDayPatterns(days, rs, index + 1, acc)

\* The weeks a bar can show: the levels of its day elements.
Weeks == [1..MaxDays -> DayLevels]

\* play() of the day-pattern sequencer
DayPlay ==
    /\ ~dayPlaying
    /\ dayFrame = "none"
    /\ dayPlaying' = TRUE
    /\ dayProgress' = 0
    /\ dayLast' = dayNow
    /\ dayBar' = 0
    /\ dayFrame' = "queued"
    /\ UNCHANGED <<isTriggered, dayNow, dayTicks, timers, dayLog,
                   harmonyVars>>

\* tick(timestamp): on a full bar, handleDayPatterns for the days of the
\* current week, the isTriggered timer and updateBarPosition.
DayTick ==
    \E days \in Weeks, rs \in [1..MaxDays -> RandomIndices] :
        LET last == IF dayLast = 0 THEN dayNow ELSE dayLast
            elapsed == dayNow - last
            handled == HandleDayPatterns(days, rs, 0,
                           [harmony |-> HarmonyState, timers |-> timers,
                            log |-> dayLog])
            nextBar == dayBar + 1
        IN  /\ dayFrame = "due"
            /\ dayTicks' = dayTicks + 1
            /\ IF BarElapsed(elapsed, SeqBpm)
               THEN /\ isTriggered' = TRUE
                    /\ currentKey' = handled.harmony.key
                    /\ currentScale' = handled.harmony.scale
                    /\ currentProgression' = handled.harmony.progression
                    /\ rootHistory' = handled.harmony.history
                    /\ timers' = Append(handled.timers,
                                      [kind |-> "untrigger",
                                       due |-> dayNow + TriggerMs])
                    /\ dayLog' = handled.log
                    /\ dayBar' = IF nextBar > bars - 1 THEN 0 ELSE nextBar
                    /\ dayLast' = dayNow
                    /\ dayProgress' = 0
               ELSE /\ rs = [i \in 1..MaxDays |-> 0]
                    /\ days = [i \in 1..MaxDays |-> 0]
                    /\ dayProgress' = ProgressOf(elapsed, SeqBpm)
                    /\ dayLast' = last
                    /\ UNCHANGED <<isTriggered, timers, dayLog, dayBar,
                                   harmonyVars>>
            /\ dayFrame' = IF dayPlaying THEN "queued" ELSE "none"
            /\ UNCHANGED <<dayPlaying, dayNow>>

\* The timers that have expired and that no other expired timer precedes.
NextTimer ==
    {i \in DOMAIN timers :
        /\ timers[i].due <= dayNow
        /\ \A j \in DOMAIN timers :
               \/ timers[j].due > timers[i].due
               \/ timers[j].due = timers[i].due /\ j >= i}

\* The string whose characters are given.
RECURSIVE NoteText(_)
NoteText(chars) ==
    IF chars = <<>> THEN "" ELSE Head(chars) \o NoteText(Tail(chars))

\* playPattern(type, level, notes) reaches leadSynth.triggerAttackRelease:
\* the type is 'arpeggio', notes is not empty and every entry of the
\* generated pattern is truthy.
TriggersLead(type, level, notes) ==
    /\ type = "arpeggio"
    /\ notes # <<>>
    /\ LET pattern == GeneratePattern(type, level,
                          [i \in DOMAIN notes |-> NoteText(notes[i])])
       IN  /\ pattern # <<>>
           /\ \A i \in DOMAIN pattern : Truthy(pattern[i])

\* One playPattern call of the callback of timer t.
PatternCall(t, type, notes) ==
    [kind |-> "playPattern", day |-> t.day, level |-> t.level,
     type |-> type, by |-> t.by, task |-> "timer", notes |-> notes,
     lead |-> TriggersLead(type, t.level, notes)]

\* Faulty variant of the callback: the arpeggio is played at every level.
PatternCallsEveryLevel(t) ==
    <<PatternCall(t, "bass", <<t.harmony.bass>>),
      PatternCall(t, "chords", t.harmony.chord),
      PatternCall(t, "arpeggio", t.harmony.extensions)>>

\* The playPattern calls of one day's callback, in order.
PatternCalls(t) ==
    <<PatternCall(t, "bass", <<t.harmony.bass>>),
      PatternCall(t, "chords", t.harmony.chord)>>
    \o (IF t.level > 2
        THEN <<PatternCall(t, "arpeggio", t.harmony.extensions)>>
        ELSE <<>>)

\* A setTimeout callback runs.
DayTimer ==
    \E i \in NextTimer :
        /\ timers' = [j \in 1..(Len(timers) - 1) |->
                          IF j < i THEN timers[j] ELSE timers[j + 1]]
        /\ IF timers[i].kind = "patterns"
           THEN /\ dayLog' = dayLog \o PatternCalls(timers[i])
                /\ UNCHANGED isTriggered
           ELSE /\ isTriggered' = FALSE
                /\ UNCHANGED dayLog
        /\ UNCHANGED <<dayPlaying, dayBar, dayProgress, dayLast, dayNow,
                       dayFrame, dayTicks, harmonyVars>>

\* The next frame: the callbacks whose time has come have run.
DayFrame ==
    /\ dayFrame # "due"
    /\ NextTimer = {}
    /\ dayNow + DayFramePeriod <= TimeOrigin + MaxDayFrames * DayFramePeriod
    /\ dayNow' = dayNow + DayFramePeriod
    /\ dayFrame' = IF dayFrame = "queued" THEN "due" ELSE dayFrame
    /\ UNCHANGED <<dayPlaying, dayBar, dayProgress, dayLast, isTriggered,
                   dayTicks, timers, dayLog, harmonyVars>>

\* State after useSequencer(bars) has run.
InitDays ==
    /\ dayPlaying = FALSE
    /\ dayBar = 0
    /\ dayProgress = 0
    /\ dayLast = 0
    /\ isTriggered = FALSE
    /\ dayNow = TimeOrigin
    /\ dayFrame = "none"
    /\ dayTicks = 0
    /\ timers = <<>>
    /\ dayLog = <<>>

(* ============ synth parameters: useSynthState, updateSynthParam ======== *)

\* Parameter values are in thousandths; a boolean is 1 or 0.
\* Updates explored, and the arguments tried for updateSynthParam.
MaxParamUpdates == 1
ParamInputs ==
    {"cutoff", "resonance", "attack", "chorus", "modDecay", "distortion"}
ValueInputs == {0, 500}

\* The allow-lists of isBassParam, isPadParam and isLeadParam
allowedParams ==
    [bass |-> {"cutoff", "resonance", "attack", "decay", "sustain", "release",
               "volume"},
     pad |-> {"cutoff", "reverbMix", "attack", "decay", "sustain", "release",
              "volume", "chorus", "modAttack", "modDecay", "modSustain",
              "modRelease"},
     lead |-> {"cutoff", "delayTime", "delayFeedback", "reverbMix", "attack",
               "decay", "sustain", "release", "volume", "distortion"}]

\* isBassParam / isPadParam / isLeadParam, by voice
IsParam(synthType, param) == param \in allowedParams[synthType]

\* synthState.synthParams as initialised
initialSynthParams ==
    [bass |-> [cutoff |-> 240000, resonance |-> 2000, attack |-> 200,
               decay |-> 600, sustain |-> 800, release |-> 1600,
               volume |-> -8000],
     pad |-> [cutoff |-> 1250000, reverbMix |-> 850, attack |-> 800,
              decay |-> 1800, sustain |-> 900, release |-> 3000,
              volume |-> 4000, chorus |-> 1, modAttack |-> 400,
              modDecay |-> 600, modSustain |-> 700, modRelease |-> 2200],
     lead |-> [cutoff |-> 800000, delayTime |-> 250, delayFeedback |-> 350,
               reverbMix |-> 300, attack |-> 100, decay |-> 300,
               sustain |-> 600, release |-> 800, volume |-> -16000,
               distortion |-> 0]]

\* The synths and effects as useSynthDefinitions() builds them ('16n' is
\* 0.125 s at the default tempo; Tone.Distortion is fully wet by default).
initialLiveParams ==
    [bass |-> ("filter.frequency" :> 200000 @@ "filter.Q" :> 2000
               @@ "volume.volume" :> 0 @@ "envelope.attack" :> 800
               @@ "envelope.decay" :> 1200 @@ "envelope.sustain" :> 200
               @@ "envelope.release" :> 1600),
     pad |-> ("filter.frequency" :> 2000000 @@ "reverb.wet" :> 850
              @@ "chorus.wet" :> 300 @@ "volume.volume" :> 4000
              @@ "envelope.attack" :> 800 @@ "envelope.decay" :> 1800
              @@ "envelope.sustain" :> 900 @@ "envelope.release" :> 3000
              @@ "modulationEnvelope.attack" :> 400
              @@ "modulationEnvelope.decay" :> 600
              @@ "modulationEnvelope.sustain" :> 700
              @@ "modulationEnvelope.release" :> 2200),
     lead |-> ("filter.frequency" :> 600000 @@ "delay.delayTime" :> 125
               @@ "delay.feedback" :> 350 @@ "reverb.wet" :> 300
               @@ "distortion.wet" :> 1000 @@ "volume.volume" :> -18000
               @@ "envelope.attack" :> 20 @@ "envelope.decay" :> 300
               @@ "envelope.sustain" :> 600 @@ "envelope.release" :> 800)]

\* obj[key] = value on a JavaScript object: the property is added when it
\* is not there yet.
SetProperty(obj, key, value) ==
    [k \in DOMAIN obj \cup {key} |-> IF k = key THEN value ELSE obj[k]]

\* The parameter of the synth or effect that the switch of updateSynthParam
\* writes for an allowed name: the named cases, then the default branch
\* (envelope: { [param] }, or for the pad's mod names
\* modulationEnvelope: { [param.slice(3).toLowerCase()] }).
LivePath(synthType, param) ==
    IF param = "cutoff" THEN "filter.frequency"
    ELSE IF param = "volume" THEN "volume.volume"
    ELSE IF synthType = "bass" /\ param = "resonance" THEN "filter.Q"
    ELSE IF synthType \in {"pad", "lead"} /\ param = "reverbMix"
    THEN "reverb.wet"
    ELSE IF synthType = "pad" /\ param = "chorus" THEN "chorus.wet"
    ELSE IF synthType = "lead" /\ param = "delayTime" THEN "delay.delayTime"
    ELSE IF synthType = "lead" /\ param = "delayFeedback"
    THEN "delay.feedback"
    ELSE IF synthType = "lead" /\ param = "distortion" THEN "distortion.wet"
    ELSE IF synthType = "pad" /\ param = "modAttack"
    THEN "modulationEnvelope.attack"
    ELSE IF synthType = "pad" /\ param = "modDecay"
    THEN "modulationEnvelope.decay"
    ELSE IF synthType = "pad" /\ param = "modSustain"
    THEN "modulationEnvelope.sustain"
    ELSE IF synthType = "pad" /\ param = "modRelease"
    THEN "modulationEnvelope.release"
    ELSE "envelope." \o param

\* The value written there: (value as boolean) ? 0.3 : 0 for the chorus,
\* ? 0.6 : 0 for the distortion, the value itself otherwise.
LiveValue(synthType, param, value) ==
    IF synthType = "pad" /\ param = "chorus"
    THEN (IF value # 0 THEN 300 ELSE 0)
    ELSE IF synthType = "lead" /\ param = "distortion"
    THEN (IF value # 0 THEN 600 ELSE 0)
    ELSE value

\* Tone.getContext().state === 'running': Tone.start() has resolved.
ContextRunning ==
    \/ isAudioContextInitialized
    \/ \E p \in Callers : calls[p].pc = "ctxResume"

\* synthState.value.synthParams[synthType][param] = value
StoreParam(params, synthType, param, value) ==
    [params EXCEPT ![synthType] = SetProperty(@, param, value)]

\* Faulty variant of updateSynthParam: the voice's active flag is not
\* consulted.
UpdateSynthParamAnyVoice(synthType, param, value) ==
    /\ paramUpdates < MaxParamUpdates
    /\ paramUpdates' = paramUpdates + 1
    /\ synthParams' = StoreParam(synthParams, synthType, param, value)
    /\ liveParams' =
          IF ContextRunning /\ IsParam(synthType, param)
          THEN [liveParams EXCEPT ![synthType] =
                   SetProperty(@, LivePath(synthType, param),
                               LiveValue(synthType, param, value))]
          ELSE liveParams
    /\ UNCHANGED audioVars

\* updateSynthParam(synthType, param, value)
UpdateSynthParam(synthType, param, value) ==
    /\ paramUpdates < MaxParamUpdates
    /\ paramUpdates' = paramUpdates + 1
    /\ synthParams' = StoreParam(synthParams, synthType, param, value)
    /\ liveParams' =
          IF ContextRunning /\ activeSynths[synthType]
             /\ IsParam(synthType, param)
          THEN [liveParams EXCEPT ![synthType] =
                   SetProperty(@, LivePath(synthType, param),
                               LiveValue(synthType, param, value))]
          ELSE liveParams
    /\ UNCHANGED audioVars

InitSynth ==
    /\ synthParams = initialSynthParams
    /\ liveParams = initialLiveParams
    /\ paramUpdates = 0

\* One caller playing patterns without notes, stopPlayback, and parameter
\* updates.
NextSynth ==
    \/ CallPlayPattern(1, PatternTypes, PlaybackLevels, {<<>>})
       /\ UNCHANGED synthVars
    \/ ToneStarted(1) /\ UNCHANGED synthVars
    \/ ContextResumed(1) /\ UNCHANGED synthVars
    \/ PlayPatternBody(1) /\ UNCHANGED synthVars
    \/ StopPlayback /\ UNCHANGED synthVars
    \/ \E synthType \in Voices, param \in ParamInputs, value \in ValueInputs :
          UpdateSynthParam(synthType, param, value)

Init ==
    /\ InitTransport
    /\ InitHarmony
    /\ InitAudio
    /\ InitSynth
    /\ InitProbe
    /\ InitPause
    /\ InitDays
    /\ InitGen
    /\ InitBpm

NextChords == Probe

SpecChords ==
    Init /\ [][NextChords
               /\ UNCHANGED <<transportVars, harmonyVars, audioVars,
                              synthVars, pauseVars, dayVars, genVars,
                              bpmVars>>]_vars

SpecSynth ==
    Init /\ [][NextSynth
               /\ UNCHANGED <<transportVars, harmonyVars, probeVars,
                              pauseVars, dayVars, genVars, bpmVars>>]_vars

SpecAudio ==
    Init /\ [][NextAudio
               /\ UNCHANGED <<transportVars, harmonyVars, synthVars,
                              probeVars, pauseVars, dayVars, genVars,
                              bpmVars>>]_vars

SpecVoices ==
    Init /\ [][NextVoices
               /\ UNCHANGED <<transportVars, harmonyVars, synthVars,
                              probeVars, pauseVars, dayVars, genVars,
                              bpmVars>>]_vars

NextTransport ==
    \/ Play
    \/ Resume
    \/ Pause
    \/ Stop
    \/ SetBPM
    \/ SetStartPosition
    \/ SetBars
    \/ Tick
    \/ AdvanceTime

SpecTransport ==
    Init /\ [][NextTransport
               /\ UNCHANGED <<harmonyVars, audioVars, synthVars,
                              probeVars, pauseVars, dayVars, genVars,
                              bpmVars>>]_vars

NextHarmony == DetermineHarmony

SpecHarmony == Init /\ [][NextHarmony]_vars

(* ---- the wraparound run: configure, play() once, then only frames ---- *)

WrapPlay ==
    /\ playedAt = 0
    /\ PlayCore
    /\ playedAt' = now
    /\ UNCHANGED <<loopCompletes, advances, lastFrameAt, prevFrameAt>>

WrapSetBPM == playedAt = 0 /\ SetBPM

WrapSetStartPosition == playedAt = 0 /\ SetStartPosition

WrapTick == TickCore("none") /\ ObserveRun(emitted')

\* Frame gaps shorter than one bar duration.
WrapFrame ==
    \E gap \in FrameGaps :
        /\ playedAt # 0
        /\ ~BarElapsed(gap, bpm)
        /\ NextFrame(gap, MaxWrapFrames)

NextWrap ==
    \/ WrapSetBPM
    \/ WrapSetStartPosition
    \/ WrapPlay
    \/ WrapTick
    \/ WrapFrame

SpecWrap ==
    Init /\ [][NextWrap
               /\ UNCHANGED <<harmonyVars, audioVars, synthVars,
                              probeVars, pauseVars, dayVars, genVars,
                              bpmVars>>]_vars

(* ---- the run with late frames: configure, play() once, then frames --- *)

\* The next frame comes one frame period or several bar durations later.
LateFrame ==
    \E gap \in LateGaps :
        /\ playedAt # 0
        /\ NextFrame(gap, MaxLateFrames)

NextLate ==
    \/ WrapSetBPM
    \/ WrapSetStartPosition
    \/ WrapPlay
    \/ WrapTick
    \/ LateFrame

SpecLate ==
    Init /\ [][NextLate
               /\ UNCHANGED <<harmonyVars, audioVars, synthVars,
                              probeVars, pauseVars, dayVars, genVars,
                              bpmVars>>]_vars

NextPatterns == Generate

SpecPatterns ==
    Init /\ [][NextPatterns
               /\ UNCHANGED <<transportVars, harmonyVars, audioVars,
                              synthVars, probeVars, pauseVars,
                              dayVars, bpmVars>>]_vars

NextDays ==
    \/ DayPlay
    \/ DayTick
    \/ DayTimer
    \/ DayFrame

SpecDays ==
    Init /\ [][NextDays
               /\ UNCHANGED <<transportVars, audioVars, synthVars,
                              probeVars, pauseVars, genVars,
                              bpmVars>>]_vars

(* ------- one pause: configure, play(), pause(), resume(), frames ------ *)

PauseSetBPM == phase = "idle" /\ SetBPM /\ UNCHANGED pauseVars

PausePlay ==
    /\ phase = "idle"
    /\ Play
    /\ phase' = "playing"
    /\ barPlayed' = 0
    /\ UNCHANGED <<retained, resumedAt, reported, ticksSinceResume,
                   advancedSinceResume>>

\* tick: events.onTick receives currentBar and the progress just computed;
\* a bar advance starts a new bar.
PauseTick ==
    /\ TickCore("none")
    /\ UNCHANGED runVars
    /\ reported' =
           [bar |-> currentBar,
            progress |-> ProgressOf(
                now - (IF lastTimestamp = 0 THEN now ELSE lastTimestamp),
                bpm)]
    /\ barPlayed' = IF "onBarChange" \in Range(emitted') THEN 0
                    ELSE barPlayed
    /\ ticksSinceResume' = IF phase = "resumed"
                           THEN Min(ticksSinceResume + 1, 2) ELSE 0
    /\ advancedSinceResume' =
           \/ advancedSinceResume
           \/ phase = "resumed" /\ "onBarChange" \in Range(emitted')
    /\ UNCHANGED <<phase, retained, resumedAt>>

PausePause ==
    /\ phase = "playing"
    /\ Pause
    /\ phase' = "paused"
    /\ retained' = [bar |-> currentBar, progress |-> progress, at |-> now]
    /\ UNCHANGED <<resumedAt, barPlayed, reported, ticksSinceResume,
                   advancedSinceResume>>

PauseResume ==
    /\ phase = "paused"
    /\ Resume
    /\ phase' = "resumed"
    /\ resumedAt' = now
    /\ UNCHANGED <<retained, barPlayed, reported, ticksSinceResume,
                   advancedSinceResume>>

\* The next frame: the time that passes while playing is playing time.
PauseFrame ==
    \E gap \in FrameGaps :
        /\ phase # "idle"
        /\ NextFrame(gap, MaxWrapFrames)
        /\ barPlayed' = IF isPlaying THEN barPlayed + gap ELSE barPlayed
        /\ UNCHANGED <<phase, retained, resumedAt, reported,
                       ticksSinceResume, advancedSinceResume>>

NextPause ==
    \/ PauseSetBPM
    \/ PausePlay
    \/ PauseTick
    \/ PausePause
    \/ PauseResume
    \/ PauseFrame

SpecPause ==
    Init /\ [][NextPause
               /\ UNCHANGED <<harmonyVars, audioVars, synthVars,
                              probeVars, dayVars, genVars,
                              bpmVars>>]_vars

(* ------------- the page: GridView's handlers and the frames ----------- *)

\* updateBPM(newBPM) of the orchestrator
UpdateBPM(newBPM) ==
    /\ currentBPM' = newBPM
    /\ harmonyBpm' = newBPM

\* handleBPMChange(newBPM): sequencer.setBPM, then orchestrator.updateBPM
HandleBPMChange(newBPM) ==
    /\ SetBPMTo(newBPM)
    /\ UpdateBPM(newBPM)

\* handlePlayback(true) once await Tone.start() has resolved: resume() when
\* sequencer.isPlaying.value, otherwise play().
HandlePlaybackTrue == IF isPlaying THEN Resume ELSE Play

\* handlePlayback(false): sequencer.pause()
HandlePlaybackFalse == Pause

\* handleStop(): sequencer.stop(), then
\* sequencer.setStartPosition(startBar.value); startBar holds the value
\* last given to setStartPosition.
HandleStop ==
    /\ SetSeq([StopState(SeqState) EXCEPT !.lastTimestamp = 0])
    /\ CancelFrame(animationFrame, due, queued)
    /\ now' = now
    /\ emitted' = <<>>
    /\ UNCHANGED runVars

PageBPMChange ==
    \E newBPM \in PageBpmInputs :
        /\ HandleBPMChange(newBPM)
        /\ UNCHANGED pauseVars

\* The play event; the page sees the transport playing from here on.
PagePlay ==
    /\ HandlePlaybackTrue
    /\ phase' = "playing"
    /\ UNCHANGED <<retained, resumedAt, barPlayed, reported,
                   ticksSinceResume, advancedSinceResume, bpmVars>>

\* The pause event; currentBar and progress are noted when it pauses a
\* playing transport.
PagePause ==
    /\ HandlePlaybackFalse
    /\ phase' = IF phase = "playing" THEN "paused" ELSE phase
    /\ retained' = IF phase = "playing"
                   THEN [bar |-> currentBar, progress |-> progress,
                         at |-> now]
                   ELSE retained
    /\ UNCHANGED <<resumedAt, barPlayed, reported, ticksSinceResume,
                   advancedSinceResume, bpmVars>>

\* The stop event
PageStop ==
    /\ HandleStop
    /\ phase' = "idle"
    /\ UNCHANGED <<retained, resumedAt, barPlayed, reported,
                   ticksSinceResume, advancedSinceResume, bpmVars>>

PageTick ==
    /\ TickCore("none")
    /\ UNCHANGED <<runVars, pauseVars, bpmVars>>

PageFrame ==
    /\ NextFrame(FramePeriod, MaxPageFrames)
    /\ UNCHANGED <<pauseVars, bpmVars>>

NextPage ==
    \/ PageBPMChange
    \/ PagePlay
    \/ PagePause
    \/ PageStop
    \/ PageTick
    \/ PageFrame

SpecPage ==
    Init /\ [][NextPage
               /\ UNCHANGED <<harmonyVars, audioVars, synthVars,
                              probeVars, dayVars, genVars>>]_vars

(* ======================= properties: transport ======================== *)

\* A step that runs tick to its end without a throw.
TickStep ==
    /\ due' = due - 1
    /\ emitted' # <<>>
    /\ "throw" \notin Range(emitted')

\* A step that runs tick, whether or not a handler throws.
AnyTickStep == due' = due - 1 /\ emitted' # <<>>

\* The tick of this step finds a full bar elapsed.
FullBar ==
    BarElapsed(now - (IF lastTimestamp = 0 THEN now ELSE lastTimestamp), bpm)

\* C3: in every reachable state of the transport, currentBar lies within
\* [startPosition, startPosition + bars - 1].
C3_BarInRange ==
    /\ startPosition <= currentBar
    /\ currentBar <= startPosition + bars - 1

\* C3 witness: a tick has wrapped a two-bar loop that starts at bar 1.
C3_Witness ==
    /\ "onLoopComplete" \in Range(emitted)
    /\ startPosition = 1
    /\ bars = 2
    /\ currentBar = startPosition

\* C4 as claimed: a bar advance raises exactly one of the two notifications,
\* loop-complete when it wraps and bar-change when it increments.
C4_ExactlyOneNotification ==
    [][(TickStep /\ FullBar) =>
         \/ /\ currentBar = startPosition + bars - 1
            /\ currentBar' = startPosition
            /\ "onLoopComplete" \in Range(emitted')
            /\ "onBarChange" \notin Range(emitted')
         \/ /\ currentBar < startPosition + bars - 1
            /\ currentBar' = currentBar + 1
            /\ "onBarChange" \in Range(emitted')
            /\ "onLoopComplete" \notin Range(emitted')]_vars

\* C4 amended: every bar advance raises bar-change, as the last notification
\* of the tick; an advance that wraps raises loop-complete before it; an
\* advance that increments raises no loop-complete; a tick without a bar
\* advance raises neither.
C4_BarChangeOnEveryAdvance ==
    [][TickStep =>
         IF FullBar
         THEN \/ /\ currentBar = startPosition + bars - 1
                 /\ currentBar' = startPosition
                 /\ emitted' = <<"onTick", "onLoopComplete", "onBarChange">>
              \/ /\ currentBar < startPosition + bars - 1
                 /\ currentBar' = currentBar + 1
                 /\ emitted' = <<"onTick", "onBarChange">>
         ELSE /\ emitted' = <<"onTick">>
              /\ currentBar' = currentBar]_vars

\* C4 witness: a tick has wrapped a loop of two bars and raised both.
C4_Witness ==
    /\ emitted = <<"onTick", "onLoopComplete", "onBarChange">>
    /\ bars = 2
    /\ currentBar = startPosition
    /\ isLooping

\* C6 as claimed: after a tick in which a handler threw, the transport is
\* stopped: not playing, no frame request outstanding, progress 0,
\* currentBar = startPosition, not looping.
C6_FaultStops ==
    ("throw" \in Range(emitted)) =>
        /\ ~isPlaying
        /\ due + queued = 0
        /\ progress = 0
        /\ currentBar = startPosition
        /\ ~isLooping

\* C7 as claimed: while the transport is not playing (after pause() or
\* stop(), until the next play() or resume()) no tick is processed.
C7_NoTickWhileHalted == [][~isPlaying => ~AnyTickStep]_vars

(* --------------------- properties: wraparound run --------------------- *)

\* The time t is at least n bar durations after play().
BarsAfterPlay(t, n) == (t - playedAt) * bpm >= n * ProgressDen

\* C5 as claimed: at the first frame at least bars bar-durations after
\* play(), currentBar is startPosition again and loop-complete has fired
\* exactly once.
C5_WrapAtFirstFrame ==
    (/\ playedAt # 0
     /\ due = 0
     /\ lastFrameAt = now
     /\ BarsAfterPlay(now, bars)
     /\ ~BarsAfterPlay(prevFrameAt, bars))
    => (currentBar = startPosition /\ loopCompletes = 1)

\* C5 amended: currentBar is startPosition again and loop-complete has fired
\* exactly once when the bars-th bar advance since play() has happened, not
\* before; that advance happens at a frame at least bars bar-durations after
\* play(), which need not be the first such frame.
C5_WrapAtNthAdvance ==
    (playedAt # 0) =>
        /\ (advances < bars) =>
              (loopCompletes = 0 /\ currentBar = startPosition + advances)
        /\ (advances = bars) =>
              /\ currentBar = startPosition
              /\ loopCompletes = 1
              /\ BarsAfterPlay(lastTimestamp, bars)
        /\ BarsAfterPlay(lastTimestamp, advances)

\* C5 witness: a loop of two bars or more has wrapped once, later than two
\* bar durations after play().
C5_Witness ==
    /\ playedAt # 0
    /\ bars >= 2
    /\ advances = bars
    /\ loopCompletes = 1
    /\ (lastTimestamp - playedAt) * bpm > bars * ProgressDen


\* A tick run after resume() while no bar advance has happened since.
ResumedTick == phase = "resumed" /\ ~advancedSinceResume /\ AnyTickStep

\* The tick of this step advances the bar.
BarAdvances == "onBarChange" \in Range(emitted')

\* The first tick after resume() reports the bar and at least the progress
\* that pause() retained.
FirstTickContinues ==
    ticksSinceResume = 1 =>
        /\ reported.bar = retained.bar
        /\ reported.progress >= retained.progress

\* C13 as stated: after pause() at (b, p) and resume() with bpm unchanged,
\* the first tick reports currentBar = b and progress >= p, and the next
\* bar advance happens at the tick at which the playing time spent in the
\* bar, the paused interval excluded, reaches one bar duration.
C13_PlayingTimeCounts ==
    /\ []FirstTickContinues
    /\ [][ResumedTick => (BarAdvances <=> BarElapsed(barPlayed, bpm))]_vars

\* C13 amended: after pause() at (b, p) and resume() with bpm unchanged, the
\* first tick reports currentBar = b and progress >= p, and the next bar
\* advance happens at the first tick at which p bar durations plus the time
\* since resume() reach one bar duration; the playing time between the last
\* tick before pause() and pause() is not counted.
C13_RetainedProgressCounts ==
    /\ []FirstTickContinues
    /\ [][ResumedTick =>
             (BarAdvances <=>
                 retained.progress + (now - resumedAt) * bpm
                     >= ProgressDen)]_vars

\* A bar paused in its middle has been resumed after a while and has
\* ended at a later tick than the first one.
C13_Witness ==
    /\ phase = "resumed"
    /\ advancedSinceResume
    /\ ticksSinceResume = 2
    /\ retained.progress > 0
    /\ resumedAt > retained.at

C21_StopHalts ==
    [][Stop =>
          /\ ~isPlaying'
          /\ due' + queued' = 0
          /\ progress' = 0
          /\ currentBar' = startPosition'
          /\ ~isLooping'
          /\ startPosition' = startPosition
          /\ bpm' = bpm]_vars

\* The Stopped state: isPlaying = false, no frame scheduled, progress = 0,
\* currentBar = startPosition and isLooping = false.
Stopped ==
    /\ ~isPlaying
    /\ due + queued = 0
    /\ progress = 0
    /\ currentBar = startPosition
    /\ ~isLooping

\* C33: play() invoked in the Stopped state leaves the transport Playing
\* with progress = 0, currentBar = startPosition and isLooping = false, and
\* with exactly one frame scheduled.
C33_PlayFromStopped ==
    [][(Stopped /\ Play) =>
          /\ isPlaying'
          /\ progress' = 0
          /\ currentBar' = startPosition'
          /\ startPosition' = startPosition
          /\ ~isLooping'
          /\ due' + queued' = 1]_vars

\* play() has just run on a transport that had played, advanced and been
\* stopped with start position 1.
C33_Witness ==
    /\ isPlaying
    /\ due + queued = 1
    /\ animationFrame = "queued"
    /\ progress = 0
    /\ lastTimestamp = now
    /\ startPosition = 1
    /\ currentBar = 1
    /\ ~isLooping
    /\ now > TimeOrigin
    /\ emitted = <<>>

\* C34: at most one animation-frame request of the transport is outstanding
\* at any time, and one is outstanding exactly when isPlaying is true.
C34_OneRequestIffPlaying ==
    /\ due + queued <= 1
    /\ (due + queued = 1) <=> isPlaying

\* The bar that follows currentBar in the loop.
BarAfter ==
    IF currentBar + 1 > startPosition + bars - 1 THEN startPosition
    ELSE currentBar + 1

\* C35: a tick advances currentBar by at most one step however much time
\* has elapsed, and an advancing tick sets the clock anchor to its own
\* timestamp; the anchor changes at no other tick, so with a constant bpm
\* an advance comes at least one bar duration after the previous one (or
\* after play()).
C35_OneStepPerTick ==
    [][TickStep =>
          /\ advances' \in {advances, advances + 1}
          /\ (advances' = advances + 1) =>
                 /\ currentBar' = BarAfter
                 /\ lastTimestamp' = now
                 /\ progress' = 0
                 /\ BarElapsed(now - lastTimestamp, bpm)
          /\ (advances' = advances) =>
                 /\ currentBar' = currentBar
                 /\ lastTimestamp' = lastTimestamp
                 /\ ~BarElapsed(now - lastTimestamp, bpm)]_vars

\* The first tick after play() came more than two bar durations late and
\* advanced a two-bar loop by one bar.
C35_Witness ==
    /\ playedAt # 0
    /\ bars = 2
    /\ advances = 1
    /\ currentBar = startPosition + 1
    /\ lastTimestamp = now
    /\ (now - playedAt) * bpm >= 2 * ProgressDen
    /\ prevFrameAt = 0

\* C38: the transport's bpm, the orchestrator's currentBPM and the harmony
\* engine's bpm are equal in every reachable state, the initial state and
\* the states after handleBPMChange(n) included.
C38_BpmInSync ==
    /\ bpm = currentBPM
    /\ currentBPM = harmonyBpm

\* C39: when playback is paused and then started again through
\* handlePlayback(true), the transport plays on from the currentBar and the
\* progress it had when it was paused, the clock anchor set as resume()
\* sets it.
C39_PlayAfterPauseResumes ==
    [][(phase = "paused" /\ HandlePlaybackTrue) =>
          /\ isPlaying'
          /\ currentBar' = retained.bar
          /\ progress' = retained.progress
          /\ lastTimestamp' = now - ProgressMs(retained.progress, bpm)]_vars

\* C22: setStartPosition(b) can be called in every transport state and
\* leaves startPosition = currentBar = b, progress = 0 and isLooping =
\* false with isPlaying and bpm unchanged; the next tick measures elapsed
\* time from its own timestamp.
C22_StartPositionResets ==
    /\ [][\A b \in StartPositions :
             /\ ENABLED SetStartPositionTo(b)
             /\ SetStartPositionTo(b) =>
                    /\ startPosition' = b
                    /\ currentBar' = b
                    /\ progress' = 0
                    /\ ~isLooping'
                    /\ isPlaying' = isPlaying
                    /\ bpm' = bpm
                    /\ lastTimestamp' = 0]_vars
    /\ [][(lastTimestamp = 0 /\ AnyTickStep) =>
             /\ progress' = 0
             /\ lastTimestamp' = now
             /\ "onBarChange" \notin Range(emitted')]_vars

\* setStartPosition(1) has been called while playing in the middle of a
\* bar and the next tick has run.
C22_Witness ==
    /\ isPlaying
    /\ startPosition = 1
    /\ currentBar = 1
    /\ emitted = <<"onTick">>
    /\ progress = 0
    /\ lastTimestamp = now
    /\ now > TimeOrigin

\* C27: the progress stored and the progress reported to onTick are at
\* least 0 and less than 1 in every reachable state.
C27_ProgressInUnitInterval ==
    /\ 0 <= progress
    /\ progress < ProgressDen
    /\ 0 <= reported.progress
    /\ reported.progress < ProgressDen

\* The tick that ends a resumed bar has reported the capped progress.
C27_Witness ==
    /\ phase = "resumed"
    /\ reported.progress = ProgressCap
    /\ progress = 0
    /\ retained.progress > 0

(* ======================== properties: harmony ========================= *)

\* C2 as claimed: the current key occurs at most MAX_ROOT_REPETITIONS times
\* among the last 8 chosen roots.
C2_KeyCountAtMostFour == CountOf(rootHistory, currentKey) <= MAX_ROOT_REPETITIONS

\* The last call kept the key it found (the first call keeps the initial C).
KeyKept ==
    \/ Len(rootHistory) = 1 /\ rootHistory[1] = "C"
    \/ /\ Len(rootHistory) >= 2
       /\ rootHistory[Len(rootHistory)] = rootHistory[Len(rootHistory) - 1]

\* C2 amended: the current key occurs at most 5 times among the last 8 chosen
\* roots, and at most 4 times after a call that kept the key: only a forced
\* switch to a root that already occurred 4 times can make it 5.
C2_KeyCountAtMostFive ==
    /\ CountOf(rootHistory, currentKey) <= MAX_ROOT_REPETITIONS + 1
    /\ KeyKept => CountOf(rootHistory, currentKey) <= MAX_ROOT_REPETITIONS

\* C2 witness: after a forced switch the new key occurs 5 times.
C2_Witness ==
    /\ CountOf(rootHistory, currentKey) = MAX_ROOT_REPETITIONS + 1
    /\ Len(rootHistory) = HistoryLimit

\* The fixed progression templates and the roots a key may take.
ProgressionTemplates == {progressions[n] : n \in DOMAIN progressions}
PrimaryRoots == {"C", "D", "E", "F", "G", "A"}

\* C14: in every state reachable through determineHarmony calls the current
\* progression has 4 elements and equals one of the fixed templates, and the
\* current key is one of the roots C, D, E, F, G, A.
C14_ProgressionAndKeyWellFormed ==
    /\ Len(currentProgression) = 4
    /\ currentProgression \in ProgressionTemplates
    /\ currentKey \in PrimaryRoots

\* A forced switch has changed both the key and the progression.
C14_Witness ==
    /\ currentKey # "C"
    /\ currentProgression = progressions.pop
    /\ Len(rootHistory) = HistoryLimit

\* C15: after each determineHarmony call the progression is [I, IV, V, I] if
\* the chosen root is at index 4 of the current scale table, [I, V, vi, IV]
\* if it is at index 3, and what it was before the call otherwise.
C15_AlignmentDeterminism ==
    [][DetermineHarmony =>
          LET rootIndex == IndexOf(scales[currentScale'], currentKey') IN
          /\ rootIndex = 4 => currentProgression' = <<"I", "IV", "V", "I">>
          /\ rootIndex = 3 => currentProgression' = <<"I", "V", "vi", "IV">>
          /\ rootIndex \notin {3, 4}
                => currentProgression' = currentProgression
      ]_vars

\* A call has chosen the root at index 3 and one at index 0 has then kept
\* the progression that root brought.
C15_Witness ==
    /\ currentKey = "C"
    /\ currentProgression = progressions.pop
    /\ \E i \in DOMAIN rootHistory : rootHistory[i] = "F"

\* The last n roots returned are all the same.
RunAtEnd(n) ==
    /\ Len(rootHistory) >= n
    /\ \A i \in (Len(rootHistory) - n + 1)..Len(rootHistory) :
           rootHistory[i] = currentKey

C36_FallbackUnreachable ==
    /\ currentKey \in {"C", "F", "G"}
    /\ \A scale \in DOMAIN scales : IndexOf(scales[scale], currentKey) # -1
    /\ \A symbol \in ChordSymbols \ {""} :
           GetChordNotes(currentKey, currentScale, symbol) # <<>>
    /\ \A level \in Levels :
           LET baseChord ==
                   GetChordNotes(currentKey, currentScale,
                                 IF level > 2 THEN "I" ELSE "i")
               harmony == GetExtendedHarmony(currentKey, currentScale, level)
           IN  /\ baseChord # <<>>
               /\ \A i \in DOMAIN baseChord : MatchesNote(baseChord[i])
               /\ harmony = Returned(BuildHarmony(baseChord, level))
               /\ harmony \notin {defaultNotes.major, defaultNotes.minor}

\* The key has left C and the scale is minor after a full history.
C36_Witness ==
    /\ currentKey = "G"
    /\ currentScale = "minor"
    /\ Len(rootHistory) = HistoryLimit
    /\ GetExtendedHarmony(currentKey, currentScale, 1).bass = <<"G", "2">>

C26_HistoryIsLastEight ==
    /\ [](Len(rootHistory) <= 8)
    /\ [][DetermineHarmony =>
             LET full == Append(rootHistory, currentKey') IN
             rootHistory' =
                 SubSeq(full, Max(1, Len(full) - 7), Len(full))]_vars

\* The four initial roots have been evicted from a full history.
C26_Witness ==
    /\ Len(rootHistory) = 8
    /\ \A i \in DOMAIN rootHistory : rootHistory[i] # "C"

CleanupsInFlight ==
    {p \in Callers : calls[p].pc \in {"settle", "manageSettle"}}

\* C1: whatever the interleaving of concurrent playPattern('chords', ...)
\* calls and of the cleanups they trigger, voiceStatus.active is between 0
\* and MAX_VOICES in every reachable state, and every allocation granted
\* found active plus the number of allocated notes at most MAX_VOICES.
C1_VoiceCeiling ==
    /\ voiceStatus.active \in 0..MAX_VOICES
    /\ \A i \in DOMAIN grants :
           grants[i].before + grants[i].notes <= MAX_VOICES

\* The budget is used up by allocations while another call, which had been
\* told by manageVoices() that there was room, still waits to allocate.
C1_Witness ==
    /\ voiceStatus.active = MAX_VOICES
    /\ grants # <<>>
    /\ \E p \in Callers : calls[p].pc = "manageDone" /\ calls[p].ok

\* The notes granted by a list of allocations
RECURSIVE GrantedNotes(_)
GrantedNotes(g) ==
    IF g = <<>> THEN 0 ELSE Head(g).notes + GrantedNotes(Tail(g))

\* C37: voiceStatus.active decreases only when cleanupVoices sets it to 0
\* (no step lowers it when a note ends); every other step raises it by the
\* notes it grants and never above 4, so the notes granted between two
\* cleanups total at most 4; and one playPattern('chords', level, notes)
\* call whose notes are three (or are cut to three) triggers the pad voice
\* for at most one step of its pattern, whatever the level.
C37_VoicesFreedOnlyByCleanup ==
    [][/\ (voiceStatus'.active < voiceStatus.active) =>
              /\ voiceStatus' = CleanupVoices(voiceStatus)
              /\ \E p \in Callers :
                     calls'[p].pc \in {"settle", "manageSettle"}
                     /\ calls'[p].pc # calls[p].pc
              /\ grants' = <<>>
       /\ (voiceStatus'.active >= voiceStatus.active) =>
              /\ voiceStatus'.active =
                     voiceStatus.active + GrantedNotes(grants')
              /\ voiceStatus'.active <= MAX_VOICES
       /\ \A p \in Callers :
              (ManageDone(p) /\ Len(calls[p].notes) >= 3) =>
                  /\ Len(grants') <= 1
                  /\ \A i \in DOMAIN grants' : grants'[i].notes = 3
      ]_vars

\* A chords call with three notes has triggered the pad voice once, on an
\* empty voice count, although its pattern has further active steps.
C37_Witness ==
    /\ Len(grants) = 1
    /\ grants[1] = [before |-> 0, notes |-> 3]
    /\ voiceStatus.active = 3

\* C8: whatever the interleaving of concurrent startPlayback and playPattern
\* calls, the start sequence (engine start, context resume, warm-up note)
\* is executed at most once.
C8_StartSequenceOnce == startSequences <= 1

\* C9: whatever the interleaving of concurrent chord-pattern calls, at most
\* one cleanup is in flight at a time and voiceStatus.active is never
\* incremented while a cleanup is in flight.
C9_CleanupBeforeAllocation ==
    [][/\ Cardinality(CleanupsInFlight') <= 1
       /\ voiceStatus'.active > voiceStatus.active => CleanupsInFlight = {}
      ]_vars

\* C10: after stopPlayback() no note triggered by playPattern is left
\* unreleased on the synth that played it, and the bass, pad and lead flags
\* are all false.
C10_StopReleasesAll ==
    [][StopPlayback =>
          \A v \in Voices : /\ ~sounding'["patternHandler"][v]
                            /\ ~sounding'["orchestrator"][v]
                            /\ ~activeSynths'[v]
      ]_vars


(* ======================= properties: synth parameters ================= *)

\* C11: updateSynthParam(voice, name, value) with a name that is not in the
\* voice's allow-list leaves the stored per-voice parameters and the live
\* synthesis parameters unchanged.
C11_UnknownNameIsNoOp ==
    [][\A synthType \in Voices, param \in ParamInputs, value \in ValueInputs :
          (UpdateSynthParam(synthType, param, value)
           /\ ~IsParam(synthType, param))
          => (synthParams' = synthParams /\ liveParams' = liveParams)
      ]_vars


\* C32: updateSynthParam(voice, name, value) with a name in the voice's
\* allow-list always stores the value in the per-voice parameter state; it
\* writes the live parameter of that name when the audio context is running
\* and the voice's active flag is set, and changes no live parameter
\* otherwise.
C32_LiveOnlyWhenActiveAndRunning ==
    [][\A synthType \in Voices, param \in ParamInputs, value \in ValueInputs :
          (UpdateSynthParam(synthType, param, value)
           /\ IsParam(synthType, param))
          => /\ synthParams'[synthType][param] = value
             /\ \A v \in Voices : \A q \in DOMAIN synthParams[v] :
                    (v # synthType \/ q # param)
                        => synthParams'[v][q] = synthParams[v][q]
             /\ IF ContextRunning /\ activeSynths[synthType]
                THEN liveParams' =
                         [liveParams EXCEPT
                             ![synthType][LivePath(synthType, param)] =
                                 LiveValue(synthType, param, value)]
                ELSE liveParams' = liveParams
      ]_vars

\* With the context running, the cutoff of an active voice has been updated
\* and has reached its filter, while another voice is idle and untouched.
C32_Witness ==
    /\ ContextRunning
    /\ paramUpdates = 1
    /\ \E a, b \in Voices :
           /\ activeSynths[a]
           /\ ~activeSynths[b]
           /\ synthParams[a].cutoff = 500
           /\ liveParams[a]["filter.frequency"] = 500
           /\ synthParams[b] = initialSynthParams[b]
           /\ liveParams[b] = initialLiveParams[b]

(* ======================= properties: day patterns ===================== *)

\* C12: for every day whose patterns are played, the harmony determination
\* for that day precedes the playPattern calls that use its output, both
\* happen within the same tick, and no harmony determination for a
\* different day occurs between them.
C12_HarmonyThenPatternsInOneTick ==
    \A j \in DOMAIN dayLog :
        dayLog[j].kind = "playPattern" =>
            \E i \in 1..(j - 1) :
                /\ dayLog[i].kind = "updateHarmony"
                /\ dayLog[i].day = dayLog[j].day
                /\ dayLog[i].by = dayLog[j].by
                /\ dayLog[j].task = "tick"
                /\ \A k \in (i + 1)..(j - 1) :
                       dayLog[k].kind = "updateHarmony"
                           => dayLog[k].day = dayLog[j].day

(* ===================== properties: generatePattern =================== *)

\* The last call repeats the arguments of the first one.
SameArguments ==
    /\ genCalls >= 2
    /\ genLast.type = genFirst.type
    /\ genLast.level = genFirst.level
    /\ genLast.notes = genFirst.notes

C29_ArpeggioTransforms ==
    genLast.type = "arpeggio" =>
        LET n == genLast.notes
            r == genLast.result
            e(i) == IF i + 1 <= Len(n) THEN n[i + 1] ELSE "undefined"
        IN  /\ genLast.level <= 2 => r = n
            /\ genLast.level = 3 =>
                   /\ Len(r) = Len(n) + (IF Len(n) > 2 THEN Len(n) - 2 ELSE 0)
                   /\ \A i \in 1..Len(n) : r[i] = n[i]
                   /\ \A k \in 1..(Len(n) - 2) : r[Len(n) + k] = n[Len(n) - k]
            /\ genLast.level = 4 =>
                   r = <<e(0), e(1), e(0), e(2), e(1), e(2), e(1), e(0)>>
            /\ genLast.level > 4 => r = n

\* A four-note arpeggio has been generated at level 3.
C29_Witness ==
    /\ genLast.type = "arpeggio"
    /\ genLast.level = 3
    /\ genLast.result = <<"C4", "E4", "G4", "C5", "G4", "E4">>

\* The number of steps with velocity > 0
ActiveSteps(pattern) == Cardinality({i \in DOMAIN pattern : pattern[i] > 0})

CallbackRan(e) ==
    ~\E i \in DOMAIN timers :
        /\ timers[i].kind = "patterns"
        /\ timers[i].day = e.day
        /\ timers[i].by = e.by

\* A lead note has been triggered for the day of log entry e.
LeadPlayed(e) ==
    \E j \in DOMAIN dayLog :
        /\ dayLog[j].kind = "playPattern"
        /\ dayLog[j].day = e.day
        /\ dayLog[j].by = e.by
        /\ dayLog[j].lead

\* C24: lead (arpeggio) playback is triggered for a day if and only if the
\* day's level is greater than 2.
C24_LeadIffLevelAboveTwo ==
    \A i \in DOMAIN dayLog :
        /\ dayLog[i].lead => dayLog[i].level > 2
        /\ (dayLog[i].kind = "updateHarmony" /\ CallbackRan(dayLog[i])) =>
               (LeadPlayed(dayLog[i]) <=> dayLog[i].level > 2)

\* The callbacks of a week with a level-2 day and a level-3 day have run.
C24_Witness ==
    /\ timers = <<>>
    /\ \E i, j \in DOMAIN dayLog :
           /\ dayLog[i].kind = "updateHarmony"
           /\ dayLog[j].kind = "updateHarmony"
           /\ dayLog[i].by = dayLog[j].by
           /\ dayLog[i].level = 2
           /\ dayLog[j].level = 3
           /\ LeadPlayed(dayLog[j])
           /\ ~LeadPlayed(dayLog[i])

(* ========================== properties: chords ======================== *)

\* C17: for every scale, every root in C, D, E, F, G, A and every chord
\* symbol, getChordNotes returns the empty list or a list as long as the
\* interval list of the inferred chord type whose every element is a note
\* letter, an optional b or #, and one octave digit.
C17_ChordWholeOrEmpty ==
    probe.called =>
        \/ probe.chord = <<>>
        \/ /\ Len(probe.chord) =
                  Len(chordIntervals[GetChordType(probe.symbol)])
           /\ \A i \in DOMAIN probe.chord :
                  LET note == probe.chord[i] IN
                  /\ Len(note) \in {2, 3}
                  /\ note[1] \in {"A", "B", "C", "D", "E", "F", "G"}
                  /\ Len(note) = 3 => note[2] \in {"b", "#"}
                  /\ note[Len(note)] \in Range(Digits)

\* A four-note chord with a flat note in an upper octave has been returned.
C17_Witness ==
    /\ probe.called
    /\ Len(probe.chord) = 4
    /\ \E i \in DOMAIN probe.chord :
           Len(probe.chord[i]) = 3 /\ probe.chord[i][3] = "5"

\* The interval list named by the textual rule, tests in the stated order.
IntervalsBySymbol(symbol) ==
    IF Includes(Chars[symbol], <<"7">>) THEN <<0, 4, 7, 10>>
    ELSE IF Includes(Chars[symbol], <<"s", "u", "s", "4">>) THEN <<0, 5, 7>>
    ELSE IF IsLowerCase(Chars[symbol]) THEN <<0, 3, 7>>
    ELSE <<0, 4, 7>>

\* C31: when getChordNotes returns a chord (the key is in the scale and the
\* symbol is not empty), the chord has one note per interval of the list
\* chosen by the rule "contains 7, contains sus4, is lower case, otherwise",
\* and the note for interval i is the scale note at index
\* (rootIndex + noteOffsets[scale][i mod 7]) mod 7 with octave
\* floor(i / 7) + 4.
C31_ChordByRule ==
    (/\ probe.called
     /\ probe.symbol # ""
     /\ IndexOf(scales[probe.scale], probe.key) # -1) =>
        LET intervals == IntervalsBySymbol(probe.symbol)
            rootIndex == IndexOf(scales[probe.scale], probe.key)
        IN  /\ Len(probe.chord) = Len(intervals)
            /\ \A n \in DOMAIN intervals :
                   LET i == intervals[n]
                       index == (rootIndex
                                 + noteOffsets[probe.scale][(i % 7) + 1]) % 7
                   IN  probe.chord[n] =
                           Chars[scales[probe.scale][index + 1]]
                           \o DigitChars((i \div 7) + 4)

\* A lower-case symbol containing 7 was given with a key other than the
\* first scale note, and four notes came back.
C31_Witness ==
    /\ probe.called
    /\ probe.symbol = "ii7"
    /\ probe.key = "G"
    /\ probe.scale = "minor"
    /\ Len(probe.chord) = 4

\* C18: when getChordNotes yields the empty list, getExtendedHarmony(level)
\* returns exactly the default voicing of the mode selected by level (major
\* if level > 2, otherwise minor).
C18_FallbackIsDefault ==
    (probe.called /\ probe.baseChord = <<>>) =>
        probe.harmony = IF probe.level > 2 THEN defaultNotes.major
                        ELSE defaultNotes.minor

\* The root is not a note of the scale and each default has been returned.
C18_Witness ==
    /\ probe.called
    /\ probe.baseChord = <<>>
    /\ probe.level > 2
    /\ probe.harmony.bass = <<"C", "2">>

\* The note moved to the octave whose digit is d: a note is its name
\* followed by one octave digit.
AtOctave(note, d) == SubSeq(note, 1, Len(note) - 1) \o <<d>>

====
